---------------------------- MODULE Spec2Model ----------------------------
(***************************************************************************)
(* The spatial canvas engine of media_grid (AssemblyScript): the quadtree, *)
(* the grid, the command history and the canvas facade.                    *)
(*                                                                         *)
(* Coordinates are the engine's f32 world units, kept as integers.  The   *)
(* specifications that divide the quadtree (SpecQT, SpecCrowd) insert      *)
(* rectangles whose edges are multiples of Lattice; the quadrants of the   *)
(* root (-100000 .. 100000) are the lattice cells at depth AlignDepth, and *)
(* every halving down to MaxTreeDepth is exact.                            *)
(***************************************************************************)
EXTENDS Integers, Sequences, FiniteSets, TLC

\* ------------------------------------------------------------------ bounds
\* CommandHistory(maxHistory): the facade constructs it with the default 100;
\* the model runs the same code with a small cap so that eviction happens.
MaxHistory == 2
\* addObject calls per session in Spec (ids 1 .. MaxId)
MaxId == 2
\* cap on stateVersion in Spec: successful mutations per session
MaxVersion == 4
\* objects ever constructed in SpecQT
MaxQtObjects == 5
\* Quadtree calls per run in SpecQT
MaxQtCalls == 6
\* calls that change the state version in SpecCrowd
MaxCrowdCalls == 6
\* cap on stateVersion for the calls SpecFree makes while no batch ends
MaxFreeVersion == 3
\* largest integer snapped in SpecSnap
MaxSnapValue == 6
\* cap on stateVersion in SpecSize
MaxSizeVersion == 3
\* cap on stateVersion in SpecNull
MaxNullVersion == 4

\* ------------------------------------------------------- program constants
Capacity == 4
RootMin == -100000
RootSize == 200000
DefaultCanvasWidth == 800
DefaultCanvasHeight == 600
\* world units between two lattice lines of the input coordinates of
\* SpecQT and SpecCrowd: a quarter of the root
Lattice == RootSize \div 4
\* depth at which the quadrants are exactly the lattice cells
AlignDepth == CHOOSE d \in 0..8 : Lattice * 2^d = RootSize
\* deepest node whose quadrants still have integer extent
MaxTreeDepth == CHOOSE d \in 0..30 : RootSize % 2^d = 0 /\ RootSize % 2^(d + 1) # 0

\* ---------------------------------------------------------------- helpers
Range(s) == {s[i] : i \in 1..Len(s)}

Min(a, b) == IF a < b THEN a ELSE b

RECURSIVE IndexOfFrom(_, _, _)
IndexOfFrom(s, v, i) ==
    IF i > Len(s) THEN 0
    ELSE IF s[i] = v THEN i
    ELSE IndexOfFrom(s, v, i + 1)

\* Array.indexOf, 1-based; 0 stands for -1
IndexOf(s, v) == IndexOfFrom(s, v, 1)

\* Array.splice(i, 1), 1-based
Splice(s, i) == SubSeq(s, 1, i - 1) \o SubSeq(s, i + 1, Len(s))

\* --------------------------------------------------------------- geometry
AABB(x, y, w, h) == [x |-> x, y |-> y, width |-> w, height |-> h]

\* AABB.intersects: touching edges intersect
Intersects(a, b) ==
    ~(\/ a.x + a.width < b.x
      \/ b.x + b.width < a.x
      \/ a.y + a.height < b.y
      \/ b.y + b.height < a.y)

\* new CanvasObject(id, x, y, width, height)
CanvasObject(id, x, y, w, h) ==
    [id |-> id, x |-> x, y |-> y, width |-> w, height |-> h,
     rotation |-> 0, zIndex |-> 0, objectType |-> 0, assetId |-> 0]

\* CanvasObject.getBounds; no call of the engine sets rotation, so the
\* rotated branch is never taken
GetBounds(o) == AABB(o.x, o.y, o.width, o.height)

\* --------------------------------------------------------------- quadtree
\* A node holds the ids of the CanvasObject references in its bucket; the
\* objects themselves live in the heap (variable obj), so a node sees the
\* current fields of an object, as a reference does.
QuadtreeNode(boundary) ==
    [boundary |-> boundary, objects |-> <<>>, divided |-> FALSE, children |-> <<>>]

\* children in the order northeast, northwest, southeast, southwest
ChildBoundary(b, k) ==
    LET w == b.width \div 2
        h == b.height \div 2
    IN CASE k = 1 -> AABB(b.x + w, b.y, w, h)
         [] k = 2 -> AABB(b.x, b.y, w, h)
         [] k = 3 -> AABB(b.x + w, b.y + h, w, h)
         [] OTHER -> AABB(b.x, b.y + h, w, h)

\* insert into a child that was created a moment ago: fewer than Capacity
\* objects and not divided, so only the boundary test decides
FreshInsert(child, id, heap) ==
    IF Intersects(child.boundary, GetBounds(heap[id]))
    THEN [child EXCEPT !.objects = Append(@, id)]
    ELSE child

RECURSIVE Distribute(_, _, _, _)
Distribute(child, objs, heap, i) ==
    IF i > Len(objs) THEN child
    ELSE Distribute(FreshInsert(child, objs[i], heap), objs, heap, i + 1)

\* a subdivide that leaves the bucket of the node as it was
SubdivideKeep(node, heap) ==
    [boundary |-> node.boundary,
     objects |-> node.objects,
     divided |-> TRUE,
     children |-> [k \in 1..4 |->
         Distribute(QuadtreeNode(ChildBoundary(node.boundary, k)), node.objects, heap, 1)]]

\* QuadtreeNode.subdivide: every held object goes into every child it intersects
Subdivide(node, heap) ==
    [boundary |-> node.boundary,
     objects |-> <<>>,
     divided |-> TRUE,
     children |-> [k \in 1..4 |->
         Distribute(QuadtreeNode(ChildBoundary(node.boundary, k)), node.objects, heap, 1)]]

\* QuadtreeNode.insert.  fresh: the node was created by this very call.
\* A full node created by this call below the alignment depth repeats the
\* same split for ever (its objects and the new one meet every quadrant the
\* new one picks): the recursion has no end, the call exhausts the stack,
\* reported as trap.
RECURSIVE InsertNode(_, _, _, _, _)
RECURSIVE InsertChildren(_, _, _, _, _, _)
InsertNode(node, id, heap, depth, fresh) ==
    IF ~Intersects(node.boundary, GetBounds(heap[id]))
    THEN [ok |-> FALSE, trap |-> FALSE, node |-> node]
    ELSE IF Len(node.objects) < Capacity /\ ~node.divided
    THEN [ok |-> TRUE, trap |-> FALSE, node |-> [node EXCEPT !.objects = Append(@, id)]]
    ELSE IF ~node.divided /\ fresh /\ depth > AlignDepth
    THEN [ok |-> FALSE, trap |-> TRUE, node |-> node]
    ELSE InsertChildren(IF node.divided THEN node ELSE Subdivide(node, heap),
                        id, heap, depth, ~node.divided, 1)

InsertChildren(node, id, heap, depth, fresh, k) ==
    IF k > 4 THEN [ok |-> FALSE, trap |-> FALSE, node |-> node]
    ELSE LET r == InsertNode(node.children[k], id, heap, depth + 1, fresh)
             n == [node EXCEPT !.children[k] = r.node]
         IN IF r.trap THEN [ok |-> FALSE, trap |-> TRUE, node |-> n]
            ELSE IF r.ok THEN [ok |-> TRUE, trap |-> FALSE, node |-> n]
            ELSE InsertChildren(n, id, heap, depth, fresh, k + 1)

\* QuadtreeNode.remove: the first match of the bucket, else the first child
\* that removes something
RECURSIVE RemoveNode(_, _)
RECURSIVE RemoveChildren(_, _, _)
RemoveNode(node, id) ==
    LET i == IndexOf(node.objects, id)
    IN IF i > 0
       THEN [ok |-> TRUE, node |-> [node EXCEPT !.objects = Splice(@, i)]]
       ELSE IF node.divided THEN RemoveChildren(node, id, 1)
       ELSE [ok |-> FALSE, node |-> node]

RemoveChildren(node, id, k) ==
    IF k > 4 THEN [ok |-> FALSE, node |-> node]
    ELSE LET r == RemoveNode(node.children[k], id)
         IN IF r.ok THEN [ok |-> TRUE, node |-> [node EXCEPT !.children[k] = r.node]]
            ELSE RemoveChildren(node, id, k + 1)

\* a query that keeps no seenIds
SeenIdsNever(found, id) == FALSE

\* seenIds.has(obj.id): seenIds and found grow together, so found stands for both
SeenIdsHas(found, id) == id \in Range(found)

\* QuadtreeNode.query, the order of the visit: a node whose boundary meets
\* the range yields its bucket, then its children northeast, northwest,
\* southeast, southwest.  The visit does not depend on what was found.
RECURSIVE Visit(_, _)
Visit(node, range) ==
    IF ~Intersects(node.boundary, range) THEN <<>>
    ELSE IF ~node.divided THEN node.objects
    ELSE node.objects \o Visit(node.children[1], range) \o Visit(node.children[2], range)
         \o Visit(node.children[3], range) \o Visit(node.children[4], range)

\* QuadtreeNode.query, the test made on every visited entry: an object not
\* seen before whose bounds meet the range is pushed to found
RECURSIVE QueryNode(_, _, _, _, _)
QueryNode(objs, range, found, heap, i) ==
    IF i > Len(objs) THEN found
    ELSE IF ~SeenIdsHas(found, objs[i]) /\ Intersects(range, GetBounds(heap[objs[i]]))
    THEN QueryNode(objs, range, Append(found, objs[i]), heap, i + 1)
    ELSE QueryNode(objs, range, found, heap, i + 1)

\* new Quadtree(x, y, width, height): the tree is its root node
Quadtree(x, y, w, h) == QuadtreeNode(AABB(x, y, w, h))

\* Quadtree.insert
QtInsert(root, id, heap) == InsertNode(root, id, heap, 0, FALSE)

\* Quadtree.remove
QtRemove(root, id) == RemoveNode(root, id).node

\* Quadtree.queryViewport
QueryViewport(root, viewport, heap) ==
    QueryNode(Visit(root, viewport), viewport, <<>>, heap, 1)

\* Quadtree.rebuild: a fresh root over the old boundary, then every object
RECURSIVE RebuildFrom(_, _, _, _)
RebuildFrom(root, ids, heap, i) ==
    IF i > Len(ids) THEN [trap |-> FALSE, node |-> root]
    ELSE LET r == InsertNode(root, ids[i], heap, 0, FALSE)
         IN IF r.trap THEN [trap |-> TRUE, node |-> r.node]
            ELSE RebuildFrom(r.node, ids, heap, i + 1)

\* a rebuild that makes the fresh root and inserts nothing
RebuildEmpty(root, ids, heap) == [trap |-> FALSE, node |-> QuadtreeNode(root.boundary)]

Rebuild(root, ids, heap) == RebuildFrom(QuadtreeNode(root.boundary), ids, heap, 1)

\* ids held anywhere in the tree, with the nodes' depth
RECURSIVE TreeIds(_)
TreeIds(node) ==
    Range(node.objects) \cup
    (IF node.divided THEN UNION {TreeIds(node.children[k]) : k \in 1..4} ELSE {})

RECURSIVE TreeDepth(_)
TreeDepth(node) ==
    IF ~node.divided THEN 0
    ELSE 1 + (LET ds == {TreeDepth(node.children[k]) : k \in 1..4}
              IN CHOOSE d \in ds : \A e \in ds : e <= d)

\* number of bucket entries of the tree that hold id
RECURSIVE Copies(_, _)
RECURSIVE CopiesIn(_, _, _)
CopiesIn(objs, id, i) ==
    IF i > Len(objs) THEN 0
    ELSE (IF objs[i] = id THEN 1 ELSE 0) + CopiesIn(objs, id, i + 1)
Copies(node, id) ==
    CopiesIn(node.objects, id, 1) +
    (IF node.divided
     THEN Copies(node.children[1], id) + Copies(node.children[2], id)
          + Copies(node.children[3], id) + Copies(node.children[4], id)
     ELSE 0)

\* ------------------------------------------------------------------- state
VARIABLES
    canvas,          \* the module's canvas: FALSE is null, TRUE an InfiniteCanvas
    obj,             \* the CanvasObject instances ever constructed, by id
    objects,         \* InfiniteCanvas.objects: the keys of the Map, in entry order
    objectList,      \* InfiniteCanvas.objectList
    nextObjectId,    \* InfiniteCanvas.nextObjectId
    stateVersion,    \* InfiniteCanvas.stateVersion
    history,         \* CommandHistory.history
    currentIndex,    \* CommandHistory.currentIndex (history[currentIndex + 1] here)
    batchMoveCmd,    \* InfiniteCanvas.batchMoveCmd: <<>> is null, else <<cmd>>
    batchResizeCmd,  \* InfiniteCanvas.batchResizeCmd
    quadtree,        \* Viewport.quadtree.root
    visibleObjects,  \* Viewport.visibleObjects, as ids
    grid,            \* GridSystem: gridSize, snapEnabled
    camera,          \* Viewport.camera
    canvasSize,      \* Viewport.canvasWidth, canvasHeight
    trap,            \* a call ran out of stack; the instance is not used again
    lastCall,        \* the call made last and what it returned
    probe,           \* what a test harness remembers of the calls before
    store,           \* Editor.store: the Store of the editor package
    worker           \* the image-loader worker: blobCache, loadingSet, its fetches

storeVars == <<obj, objects, objectList, nextObjectId>>
histVars == <<history, currentIndex>>
batchVars == <<batchMoveCmd, batchResizeCmd>>
viewVars == <<camera, canvasSize>>
vars == <<canvas, obj, objects, objectList, nextObjectId, stateVersion, history,
          currentIndex, batchMoveCmd, batchResizeCmd, quadtree, visibleObjects, grid, camera,
          canvasSize, trap, lastCall, probe, store, worker>>

\* --------------------------------------------------------------- the Map
MapHas(m, id) == id \in Range(m)

\* Map.set: a new key is entered last, a present key keeps its place
MapSet(m, id) == IF MapHas(m, id) THEN m ELSE Append(m, id)

\* Map.delete
MapDelete(m, id) == IF MapHas(m, id) THEN Splice(m, IndexOf(m, id)) ELSE m

\* ------------------------------------------------------------------ grid
\* Mathf.round(v / gridSize): to the nearest integer, halves upwards
RoundDiv(v, g) == (2 * v + g) \div (2 * g)

\* GridSystem.snapValue
SnapValue(g, v) == IF g.snapEnabled THEN RoundDiv(v, g.gridSize) * g.gridSize ELSE v

\* a snap that returns the point as given
SnapNone(g, x, y) == <<x, y>>

\* GridSystem.snap
Snap(g, x, y) ==
    IF g.snapEnabled
    THEN <<RoundDiv(x, g.gridSize) * g.gridSize, RoundDiv(y, g.gridSize) * g.gridSize>>
    ELSE <<x, y>>

\* GridSystem.snapObject
SnapObject(g, o) ==
    IF ~g.snapEnabled THEN o
    ELSE [o EXCEPT !.x = RoundDiv(o.x, g.gridSize) * g.gridSize,
                   !.y = RoundDiv(o.y, g.gridSize) * g.gridSize,
                   !.width = RoundDiv(o.width, g.gridSize) * g.gridSize,
                   !.height = RoundDiv(o.height, g.gridSize) * g.gridSize]

\* -------------------------------------------------------------- commands
\* A command works on a world: the heap h, the Map m, the tree q, and trap.
World(h, m, q) == [h |-> h, m |-> m, q |-> q, trap |-> FALSE]

\* a MoveCommand that reads the old position after the move has been applied
MoveCommandLate(id, oldX, oldY, newX, newY) ==
    [type |-> "Move", objectId |-> id, oldX |-> newX, oldY |-> newY,
     newX |-> newX, newY |-> newY]

MoveCommand(id, oldX, oldY, newX, newY) ==
    [type |-> "Move", objectId |-> id,
     oldX |-> oldX, oldY |-> oldY, newX |-> newX, newY |-> newY]

ResizeCommand(id, oldX, oldY, oldW, oldH, newX, newY, newW, newH) ==
    [type |-> "Resize", objectId |-> id,
     oldX |-> oldX, oldY |-> oldY, oldWidth |-> oldW, oldHeight |-> oldH,
     newX |-> newX, newY |-> newY, newWidth |-> newW, newHeight |-> newH]

AddObjectCommand(id) == [type |-> "Add", object |-> id]

DeleteObjectCommand(id) == [type |-> "Delete", object |-> id]

\* new BatchMoveCommand(objects): positions are kept as <<x, y>> per entry
BatchMoveCommand ==
    [type |-> "BatchMove", objectIds |-> <<>>, oldPositions |-> <<>>, newPositions |-> <<>>]

\* BatchMoveCommand.addMove
\* an addMove that stores the target as the old position too
AddMoveLate(cmd, id, oldX, oldY, newX, newY) ==
    [cmd EXCEPT !.objectIds = Append(@, id),
                !.oldPositions = Append(@, <<newX, newY>>),
                !.newPositions = Append(@, <<newX, newY>>)]

AddMove(cmd, id, oldX, oldY, newX, newY) ==
    [cmd EXCEPT !.objectIds = Append(@, id),
                !.oldPositions = Append(@, <<oldX, oldY>>),
                !.newPositions = Append(@, <<newX, newY>>)]

\* new BatchResizeCommand(objects): data are kept as <<x, y, w, h>> per entry
BatchResizeCommand ==
    [type |-> "BatchResize", objectIds |-> <<>>, oldData |-> <<>>, newData |-> <<>>]

\* BatchResizeCommand.addResize
AddResize(cmd, id, old, new) ==
    [cmd EXCEPT !.objectIds = Append(@, id),
                !.oldData = Append(@, old),
                !.newData = Append(@, new)]

\* BatchMoveCommand.isEmpty, BatchResizeCommand.isEmpty
IsEmpty(cmd) == Len(cmd.objectIds) = 0

\* the loop of the BatchDeleteCommand constructor
RECURSIVE CollectDeleted(_, _, _)
CollectDeleted(ids, m, i) ==
    IF i > Len(ids) THEN <<>>
    ELSE (IF MapHas(m, ids[i]) THEN <<ids[i]>> ELSE <<>>) \o CollectDeleted(ids, m, i + 1)

BatchDeleteCommand(ids, m) == [type |-> "BatchDelete", deletedObjects |-> CollectDeleted(ids, m, 1)]

SetPos(W, id, p) ==
    IF MapHas(W.m, id) THEN [W EXCEPT !.h[id].x = p[1], !.h[id].y = p[2]] ELSE W

SetRect(W, id, d) ==
    IF MapHas(W.m, id)
    THEN [W EXCEPT !.h[id].x = d[1], !.h[id].y = d[2],
                   !.h[id].width = d[3], !.h[id].height = d[4]]
    ELSE W

RECURSIVE SetPosAll(_, _, _, _)
SetPosAll(W, ids, ps, i) ==
    IF i > Len(ids) THEN W ELSE SetPosAll(SetPos(W, ids[i], ps[i]), ids, ps, i + 1)

RECURSIVE SetRectAll(_, _, _, _)
SetRectAll(W, ids, ds, i) ==
    IF i > Len(ids) THEN W ELSE SetRectAll(SetRect(W, ids[i], ds[i]), ids, ds, i + 1)

\* objects.set(id, object); quadtree.insert(object)
StoreInsert(W, id) ==
    LET r == QtInsert(W.q, id, W.h)
    IN [h |-> W.h, m |-> MapSet(W.m, id), q |-> r.node, trap |-> r.trap]

\* objects.delete(id); quadtree.remove(id)
StoreRemove(W, id) == [W EXCEPT !.m = MapDelete(@, id), !.q = QtRemove(@, id)]

RECURSIVE StoreRemoveAll(_, _, _)
StoreRemoveAll(W, ids, i) ==
    IF i > Len(ids) THEN W ELSE StoreRemoveAll(StoreRemove(W, ids[i]), ids, i + 1)

RECURSIVE StoreInsertAll(_, _, _)
StoreInsertAll(W, ids, i) ==
    IF i > Len(ids) \/ W.trap THEN W ELSE StoreInsertAll(StoreInsert(W, ids[i]), ids, i + 1)

\* Command.execute
Execute(cmd, W) ==
    CASE cmd.type = "Move" -> SetPos(W, cmd.objectId, <<cmd.newX, cmd.newY>>)
      [] cmd.type = "BatchMove" -> SetPosAll(W, cmd.objectIds, cmd.newPositions, 1)
      [] cmd.type = "Resize" ->
            SetRect(W, cmd.objectId, <<cmd.newX, cmd.newY, cmd.newWidth, cmd.newHeight>>)
      [] cmd.type = "BatchResize" -> SetRectAll(W, cmd.objectIds, cmd.newData, 1)
      [] cmd.type = "Add" -> StoreInsert(W, cmd.object)
      [] cmd.type = "Delete" -> StoreRemove(W, cmd.object)
      [] OTHER -> StoreRemoveAll(W, cmd.deletedObjects, 1)

\* an undo that applies the command again
UndoAsExecute(cmd, W) == Execute(cmd, W)

\* Command.undo
UndoCmd(cmd, W) ==
    CASE cmd.type = "Move" -> SetPos(W, cmd.objectId, <<cmd.oldX, cmd.oldY>>)
      [] cmd.type = "BatchMove" -> SetPosAll(W, cmd.objectIds, cmd.oldPositions, 1)
      [] cmd.type = "Resize" ->
            SetRect(W, cmd.objectId, <<cmd.oldX, cmd.oldY, cmd.oldWidth, cmd.oldHeight>>)
      [] cmd.type = "BatchResize" -> SetRectAll(W, cmd.objectIds, cmd.oldData, 1)
      [] cmd.type = "Add" -> StoreRemove(W, cmd.object)
      [] cmd.type = "Delete" -> StoreInsert(W, cmd.object)
      [] OTHER -> StoreInsertAll(W, cmd.deletedObjects, 1)

\* -------------------------------------------------------- command history
\* an execute without the while loop: the redo branch stays
TruncateNone(h, cur) == h

\* the while loop of CommandHistory.execute: drop what lies after the cursor
Truncate(h, cur) == SubSeq(h, 1, cur + 1)

\* an execute without the size limit
PushUncapped(h, cur, cmd) ==
    [history |-> Append(SubSeq(h, 1, cur + 1), cmd), currentIndex |-> cur + 1]

\* an execute whose size limit shifts the history and leaves the cursor
PushCappedStale(h, cur, cmd) ==
    LET pushed == Append(Truncate(h, cur), cmd)
    IN IF Len(pushed) > MaxHistory
       THEN [history |-> Tail(pushed), currentIndex |-> cur + 1]
       ELSE [history |-> pushed, currentIndex |-> cur + 1]

\* the tail of CommandHistory.execute: push, advance, evict the oldest
PushCapped(h, cur, cmd) ==
    LET pushed == Append(Truncate(h, cur), cmd)
    IN IF Len(pushed) > MaxHistory
       THEN [history |-> Tail(pushed), currentIndex |-> cur]
       ELSE [history |-> pushed, currentIndex |-> cur + 1]

\* CommandHistory.execute.  A trap inside command.execute() leaves the
\* history truncated and the command not pushed.
HistExecute(h, cur, cmd, W) ==
    LET W1 == Execute(cmd, W)
        p == PushCapped(h, cur, cmd)
    IN IF W1.trap
       THEN [history |-> Truncate(h, cur), currentIndex |-> cur, W |-> W1]
       ELSE [history |-> p.history, currentIndex |-> p.currentIndex, W |-> W1]

\* a canRedo that counts the command under the cursor as still to come
CanRedoLoose == currentIndex < Len(history)

\* CommandHistory.canUndo / canRedo
CanUndo == currentIndex >= 0
CanRedo == currentIndex < Len(history) - 1

\* an undo that moves the cursor before it looks at it
HistUndoBlind(h, cur, W) ==
    IF cur < 0 THEN [ok |-> FALSE, currentIndex |-> cur - 1, W |-> W]
    ELSE LET W1 == UndoCmd(h[cur + 1], W)
         IN [ok |-> ~W1.trap, currentIndex |-> IF W1.trap THEN cur ELSE cur - 1, W |-> W1]

\* CommandHistory.undo
HistUndo(h, cur, W) ==
    IF cur < 0 THEN [ok |-> FALSE, currentIndex |-> cur, W |-> W]
    ELSE LET W1 == UndoCmd(h[cur + 1], W)
         IN [ok |-> ~W1.trap, currentIndex |-> IF W1.trap THEN cur ELSE cur - 1, W |-> W1]

\* a redo that runs the command under the cursor, not the one after it
HistRedoStale(h, cur, W) ==
    IF cur >= Len(h) - 1 THEN [ok |-> FALSE, currentIndex |-> cur, W |-> W]
    ELSE LET W1 == IF cur < 0 THEN [W EXCEPT !.trap = FALSE] ELSE Execute(h[cur + 1], W)
         IN [ok |-> ~W1.trap, currentIndex |-> cur + 1, W |-> W1]

\* CommandHistory.redo
HistRedo(h, cur, W) ==
    IF cur >= Len(h) - 1 THEN [ok |-> FALSE, currentIndex |-> cur, W |-> W]
    ELSE LET W1 == Execute(h[cur + 2], W)
         IN [ok |-> ~W1.trap, currentIndex |-> cur + 1, W |-> W1]

\* a camera whose viewport starts at the camera position instead of being
\* centred on it
GetViewportBoundsCorner(cam, size) ==
    AABB(cam.x, cam.y, size.width \div cam.zoom, size.height \div cam.zoom)

\* -------------------------------------------------------------- viewport
\* Camera.getViewportBounds
GetViewportBounds(cam, size) ==
    LET worldWidth == size.width \div cam.zoom
        worldHeight == size.height \div cam.zoom
    IN AABB(cam.x - worldWidth \div 2, cam.y - worldHeight \div 2, worldWidth, worldHeight)

\* an insertion pass that also steps over elements of equal zIndex
RECURSIVE InsertByZOverEqual(_, _, _)
InsertByZOverEqual(sorted, key, heap) ==
    IF Len(sorted) > 0 /\ heap[sorted[Len(sorted)]].zIndex >= heap[key].zIndex
    THEN Append(InsertByZOverEqual(SubSeq(sorted, 1, Len(sorted) - 1), key, heap),
                sorted[Len(sorted)])
    ELSE Append(sorted, key)

\* one pass of the insertion sort of Viewport.sortByZIndex: key goes behind
\* every element of the sorted prefix whose zIndex is not greater
RECURSIVE InsertByZ(_, _, _)
InsertByZ(sorted, key, heap) ==
    IF Len(sorted) > 0 /\ heap[sorted[Len(sorted)]].zIndex > heap[key].zIndex
    THEN Append(InsertByZ(SubSeq(sorted, 1, Len(sorted) - 1), key, heap), sorted[Len(sorted)])
    ELSE Append(sorted, key)

RECURSIVE SortFrom(_, _, _, _)
SortFrom(sorted, s, heap, i) ==
    IF i > Len(s) THEN sorted ELSE SortFrom(InsertByZ(sorted, s[i], heap), s, heap, i + 1)

\* Viewport.sortByZIndex
SortByZIndex(s, heap) == SortFrom(<<>>, s, heap, 1)

\* Viewport.updateVisibleObjects
UpdateVisibleObjects(root, cam, size, heap) ==
    SortByZIndex(QueryViewport(root, GetViewportBounds(cam, size), heap), heap)

\* ----------------------------------------------------- what a caller sees
\* ids of the store with x, y, width, height of each
Obs(h, m) == [id \in Range(m) |-> <<h[id].x, h[id].y, h[id].width, h[id].height>>]

Call(op, ok, val) == [op |-> op, ok |-> ok, val |-> val]

\* The harness follows the calls as a test does: a recorded operation (op),
\* then undo, then redo; any other call ends the sequence (idle).
\*   stage   idle, beginMove, beginResize (a batch begun with no batch in
\*           progress and only addToBatch calls since), op, dirtyop (a batch
\*           ended after other calls came between), undone (op; undo),
\*           redone (op; undo; redo), opRedo (op; redo)
\*   kind    the call that made the operation
\*   before, after   the store before and after the operation
\*   steps0, len0    undo steps (currentIndex + 1) and history length before it
\*   execRun         CommandHistory.execute calls in a row, no undo between
\*   undoRun, undoOk undo calls right after that run, and how many returned true
\*   issued          the ids addObject has returned, in order
\*   calls           Quadtree.insert / remove calls made (SpecQT)
\*   list0           the ordered id list before a deleteObject(s) call
ProbeInit ==
    [stage |-> "idle", kind |-> "none", before |-> <<>>, after |-> <<>>,
     steps0 |-> 0, len0 |-> 0, execRun |-> 0, undoRun |-> 0, undoOk |-> 0,
     issued |-> <<>>, calls |-> 0, list0 |-> <<>>]

\* a call that went through CommandHistory.execute
ProbeOp(pr, kind, clean, before, after, steps0, len0) ==
    [pr EXCEPT !.stage = IF clean THEN "op" ELSE "dirtyop", !.kind = kind,
               !.before = before, !.after = after, !.steps0 = steps0, !.len0 = len0,
               !.execRun = IF pr.undoRun > 0 THEN 1 ELSE Min(@ + 1, MaxHistory + 1),
               !.undoRun = 0, !.undoOk = 0, !.list0 = <<>>]

\* a deleteObject or deleteObjects: the harness also keeps the ordered id list
\* (getObjectIdAtIndex at every index) as it was before the call
ProbeDelete(pr, kind, list, before, after, steps0, len0) ==
    [ProbeOp(pr, kind, TRUE, before, after, steps0, len0) EXCEPT !.list0 = list]

\* the sequence is over: the harness drops what it remembered of it
Forget(pr) ==
    [pr EXCEPT !.stage = "idle", !.kind = "none", !.before = <<>>, !.after = <<>>,
               !.steps0 = 0, !.len0 = 0, !.list0 = <<>>]

\* a call that changed neither store nor history
ProbeOther(pr) == Forget(pr)

ProbeUndo(pr, ok) ==
    [(IF ok /\ pr.stage = "op" THEN [pr EXCEPT !.stage = "undone"] ELSE Forget(pr))
     EXCEPT !.undoRun = Min(@ + 1, MaxHistory + 1),
            !.undoOk = IF ok THEN Min(@ + 1, MaxHistory + 1) ELSE @]

ProbeRedo(pr, ok) ==
    [(CASE pr.stage = "undone" -> [pr EXCEPT !.stage = "redone"]
        [] pr.stage \in {"op", "dirtyop"} -> [pr EXCEPT !.stage = "opRedo"]
        [] OTHER -> Forget(pr))
     EXCEPT !.execRun = IF ok THEN 0 ELSE @,
            !.undoRun = IF ok THEN 0 ELSE @,
            !.undoOk = IF ok THEN 0 ELSE @]

ProbeClear(pr) == [Forget(pr) EXCEPT !.execRun = 0, !.undoRun = 0, !.undoOk = 0]

\* beginBatchX with no batch in progress opens a sequence the harness follows
ProbeBegin(pr, tag, idle, before, steps0, len0) ==
    IF idle
    THEN [Forget(pr) EXCEPT !.stage = tag, !.before = before,
                            !.steps0 = steps0, !.len0 = len0]
    ELSE ProbeOther(pr)

ProbeAdd(pr, tag) == IF pr.stage = tag THEN pr ELSE ProbeOther(pr)

\* a counter that counts each mutation twice
IncrementTwice(v) == v + 2

\* a counter that stands still
IncrementNever(v) == v

\* ---------------------------------------------------------------- facade
\* InfiniteCanvas.incrementVersion; the counter is a u32 and MaxVersion keeps
\* it far from the wrap
IncrementVersion(v) == v + 1

\* createCanvas(width, height, gridSize): the state of a new InfiniteCanvas
CreateCanvas(width, height, gridSize) ==
    /\ canvas = TRUE
    /\ obj = <<>>
    /\ objects = <<>>
    /\ objectList = <<>>
    /\ nextObjectId = 1
    /\ stateVersion = 0
    /\ history = <<>>
    /\ currentIndex = -1
    /\ batchMoveCmd = <<>>
    /\ batchResizeCmd = <<>>
    /\ quadtree = Quadtree(RootMin, RootMin, RootSize, RootSize)
    /\ visibleObjects = <<>>
    /\ grid = [gridSize |-> gridSize, snapEnabled |-> TRUE]
    /\ camera = [x |-> 0, y |-> 0, zoom |-> 1]
    /\ canvasSize = [width |-> width, height |-> height]
    /\ trap = FALSE
    /\ lastCall = Call("createCanvas", TRUE, 0)
    /\ probe = ProbeInit

\* an addObject that reads the counter and leaves it
NextIdStuck(id) == id

\* c.nextObjectId++
NextId(id) == id + 1

\* an addObject that puts the new id in front of the list
ListUnshift(list, id) == <<id>> \o list

\* c.objectList.push(obj.id)
ListPush(list, id) == Append(list, id)

\* addObject
AddObject(x, y, width, height, assetId, objectType) ==
    LET id == nextObjectId
        o == SnapObject(grid, [CanvasObject(id, x, y, width, height)
                               EXCEPT !.assetId = assetId, !.objectType = objectType])
        r == HistExecute(history, currentIndex, AddObjectCommand(id),
                         World(Append(obj, o), objects, quadtree))
    IN /\ canvas /\ ~trap
       /\ nextObjectId' = NextId(id)
       /\ obj' = r.W.h
       /\ objects' = r.W.m
       /\ quadtree' = r.W.q
       /\ history' = r.history
       /\ currentIndex' = r.currentIndex
       /\ trap' = r.W.trap
       /\ IF r.W.trap
          THEN /\ UNCHANGED <<objectList, stateVersion>>
               /\ lastCall' = Call("addObject", FALSE, 0)
               /\ probe' = ProbeOther(probe)
          ELSE /\ objectList' = ListPush(objectList, id)
               /\ stateVersion' = IncrementVersion(stateVersion)
               /\ lastCall' = Call("addObject", TRUE, id)
               /\ probe' = [ProbeOp(probe, "addObject", TRUE, Obs(obj, objects),
                                    Obs(r.W.h, r.W.m), currentIndex + 1, Len(history))
                            EXCEPT !.issued = Append(@, id)]
       /\ UNCHANGED <<batchVars, visibleObjects, grid, viewVars, store, worker, canvas>>

\* the tail of moveObject, resizeObject: quadtree.remove(id); quadtree.insert(obj)
Reinsert(q, id, heap) == QtInsert(QtRemove(q, id), id, heap)

\* a moveObject that counts a call for an id the store does not hold
MoveObjectBlind(objectId, newX, newY) ==
    /\ canvas /\ ~trap
    /\ IF ~MapHas(objects, objectId)
       THEN /\ lastCall' = Call("moveObject", FALSE, 0)
            /\ probe' = ProbeOther(probe)
            /\ stateVersion' = IncrementVersion(stateVersion)
            /\ UNCHANGED <<storeVars, histVars, quadtree, trap>>
       ELSE LET snapped == Snap(grid, newX, newY)
                cmd == MoveCommand(objectId, obj[objectId].x, obj[objectId].y,
                                   snapped[1], snapped[2])
                r == HistExecute(history, currentIndex, cmd, World(obj, objects, quadtree))
                t == Reinsert(r.W.q, objectId, r.W.h)
            IN /\ obj' = r.W.h
               /\ history' = r.history
               /\ currentIndex' = r.currentIndex
               /\ quadtree' = t.node
               /\ trap' = t.trap
               /\ stateVersion' = IF t.trap THEN stateVersion
                                  ELSE IncrementVersion(stateVersion)
               /\ lastCall' = Call("moveObject", ~t.trap, 0)
               /\ probe' = IF t.trap THEN ProbeOther(probe)
                           ELSE ProbeOp(probe, "moveObject", TRUE, Obs(obj, objects),
                                        Obs(r.W.h, r.W.m), currentIndex + 1, Len(history))
               /\ UNCHANGED <<objects, objectList, nextObjectId>>
    /\ UNCHANGED <<batchVars, visibleObjects, grid, viewVars, store, worker, canvas>>

\* moveObject
MoveObject(objectId, newX, newY) ==
    /\ canvas /\ ~trap
    /\ IF ~MapHas(objects, objectId)
       THEN /\ lastCall' = Call("moveObject", FALSE, 0)
            /\ probe' = ProbeOther(probe)
            /\ UNCHANGED <<storeVars, stateVersion, histVars, quadtree, trap>>
       ELSE LET snapped == Snap(grid, newX, newY)
                cmd == MoveCommand(objectId, obj[objectId].x, obj[objectId].y,
                                   snapped[1], snapped[2])
                r == HistExecute(history, currentIndex, cmd, World(obj, objects, quadtree))
                t == Reinsert(r.W.q, objectId, r.W.h)
            IN /\ obj' = r.W.h
               /\ history' = r.history
               /\ currentIndex' = r.currentIndex
               /\ quadtree' = t.node
               /\ trap' = t.trap
               /\ stateVersion' = IF t.trap THEN stateVersion
                                  ELSE IncrementVersion(stateVersion)
               /\ lastCall' = Call("moveObject", ~t.trap, 0)
               /\ probe' = IF t.trap THEN ProbeOther(probe)
                           ELSE ProbeOp(probe, "moveObject", TRUE, Obs(obj, objects),
                                        Obs(r.W.h, r.W.m), currentIndex + 1, Len(history))
               /\ UNCHANGED <<objects, objectList, nextObjectId>>
    /\ UNCHANGED <<batchVars, visibleObjects, grid, viewVars, store, worker, canvas>>

\* resizeObject
ResizeObject(objectId, newX, newY, newWidth, newHeight) ==
    /\ canvas /\ ~trap
    /\ IF ~MapHas(objects, objectId)
       THEN /\ lastCall' = Call("resizeObject", FALSE, 0)
            /\ probe' = ProbeOther(probe)
            /\ UNCHANGED <<storeVars, stateVersion, histVars, quadtree, trap>>
       ELSE LET o == obj[objectId]
                snapped == Snap(grid, newX, newY)
                cmd == ResizeCommand(objectId, o.x, o.y, o.width, o.height,
                                     snapped[1], snapped[2],
                                     SnapValue(grid, newWidth), SnapValue(grid, newHeight))
                r == HistExecute(history, currentIndex, cmd, World(obj, objects, quadtree))
                t == Reinsert(r.W.q, objectId, r.W.h)
            IN /\ obj' = r.W.h
               /\ history' = r.history
               /\ currentIndex' = r.currentIndex
               /\ quadtree' = t.node
               /\ trap' = t.trap
               /\ stateVersion' = IF t.trap THEN stateVersion
                                  ELSE IncrementVersion(stateVersion)
               /\ lastCall' = Call("resizeObject", ~t.trap, 0)
               /\ probe' = IF t.trap THEN ProbeOther(probe)
                           ELSE ProbeOp(probe, "resizeObject", TRUE, Obs(obj, objects),
                                        Obs(r.W.h, r.W.m), currentIndex + 1, Len(history))
               /\ UNCHANGED <<objects, objectList, nextObjectId>>
    /\ UNCHANGED <<batchVars, visibleObjects, grid, viewVars, store, worker, canvas>>

\* a delete that leaves the id list as it is
ListKeep(list, id) == list

\* the object-list loop of deleteObject / deleteObjects: indexOf, then splice
ListRemove(list, id) ==
    LET idx == IndexOf(list, id) IN IF idx > 0 THEN Splice(list, idx) ELSE list

RECURSIVE ListRemoveAll(_, _, _)
ListRemoveAll(list, ids, i) ==
    IF i > Len(ids) THEN list ELSE ListRemoveAll(ListRemove(list, ids[i]), ids, i + 1)

\* deleteObject
DeleteObject(objectId) ==
    /\ canvas /\ ~trap
    /\ IF ~MapHas(objects, objectId)
       THEN /\ lastCall' = Call("deleteObject", FALSE, 0)
            /\ probe' = ProbeOther(probe)
            /\ UNCHANGED <<storeVars, stateVersion, histVars, quadtree>>
       ELSE LET r == HistExecute(history, currentIndex, DeleteObjectCommand(objectId),
                                 World(obj, objects, quadtree))
            IN /\ objects' = r.W.m
               /\ quadtree' = r.W.q
               /\ history' = r.history
               /\ currentIndex' = r.currentIndex
               /\ objectList' = ListRemove(objectList, objectId)
               /\ stateVersion' = IncrementVersion(stateVersion)
               /\ lastCall' = Call("deleteObject", TRUE, 0)
               /\ probe' = ProbeDelete(probe, "deleteObject", objectList, Obs(obj, objects),
                                       Obs(r.W.h, r.W.m), currentIndex + 1, Len(history))
               /\ UNCHANGED <<obj, nextObjectId>>
    /\ UNCHANGED <<batchVars, visibleObjects, grid, viewVars, store, worker, canvas, trap>>

\* deleteObjects
DeleteObjects(objectIds) ==
    /\ canvas /\ ~trap
    /\ IF Len(objectIds) = 0
       THEN /\ lastCall' = Call("deleteObjects", FALSE, 0)
            /\ probe' = ProbeOther(probe)
            /\ UNCHANGED <<storeVars, stateVersion, histVars, quadtree>>
       ELSE LET r == HistExecute(history, currentIndex,
                                 BatchDeleteCommand(objectIds, objects),
                                 World(obj, objects, quadtree))
            IN /\ objects' = r.W.m
               /\ quadtree' = r.W.q
               /\ history' = r.history
               /\ currentIndex' = r.currentIndex
               /\ objectList' = ListRemoveAll(objectList, objectIds, 1)
               /\ stateVersion' = IncrementVersion(stateVersion)
               /\ lastCall' = Call("deleteObjects", TRUE, 0)
               /\ probe' = ProbeDelete(probe, "deleteObjects", objectList, Obs(obj, objects),
                                       Obs(r.W.h, r.W.m), currentIndex + 1, Len(history))
               /\ UNCHANGED <<obj, nextObjectId>>
    /\ UNCHANGED <<batchVars, visibleObjects, grid, viewVars, store, worker, canvas, trap>>

\* beginBatchMove
BeginBatchMove ==
    /\ canvas /\ ~trap
    /\ batchMoveCmd' = <<BatchMoveCommand>>
    /\ lastCall' = Call("beginBatchMove", TRUE, 0)
    /\ probe' = ProbeBegin(probe, "beginMove", batchMoveCmd = <<>> /\ batchResizeCmd = <<>>,
                           Obs(obj, objects), currentIndex + 1, Len(history))
    /\ UNCHANGED <<storeVars, stateVersion, histVars, batchResizeCmd, quadtree,
                   visibleObjects, grid, viewVars, store, worker, canvas, trap>>

\* an addToBatchMove that moves the object at once
AddToBatchMoveEager(objectId, newX, newY) == MoveObject(objectId, newX, newY)

\* addToBatchMove
AddToBatchMove(objectId, newX, newY) ==
    /\ canvas /\ ~trap
    /\ IF batchMoveCmd = <<>> \/ ~MapHas(objects, objectId)
       THEN /\ lastCall' = Call("addToBatchMove", FALSE, 0)
            /\ UNCHANGED batchMoveCmd
       ELSE LET snapped == Snap(grid, newX, newY)
            IN /\ batchMoveCmd' = <<AddMove(batchMoveCmd[1], objectId, obj[objectId].x,
                                            obj[objectId].y, snapped[1], snapped[2])>>
               /\ lastCall' = Call("addToBatchMove", TRUE, 0)
    /\ probe' = ProbeAdd(probe, "beginMove")
    /\ UNCHANGED <<storeVars, stateVersion, histVars, batchResizeCmd, quadtree,
                   visibleObjects, grid, viewVars, store, worker, canvas, trap>>

\* the quadtree loop of endBatchMove / endBatchResize
RECURSIVE ReinsertAll(_, _, _, _, _)
ReinsertAll(q, ids, m, heap, i) ==
    IF i > Len(ids) THEN [trap |-> FALSE, node |-> q]
    ELSE IF ~MapHas(m, ids[i]) THEN ReinsertAll(q, ids, m, heap, i + 1)
    ELSE LET t == Reinsert(q, ids[i], heap)
         IN IF t.trap THEN [trap |-> TRUE, node |-> t.node]
            ELSE ReinsertAll(t.node, ids, m, heap, i + 1)

\* an endBatch that commits the staged command without asking isEmpty()
EndBatchAlways(slot, name, tag) ==
    LET r == HistExecute(history, currentIndex, slot[1], World(obj, objects, quadtree))
        t == ReinsertAll(r.W.q, slot[1].objectIds, r.W.m, r.W.h, 1)
        clean == probe.stage = tag
    IN /\ obj' = r.W.h
       /\ history' = r.history
       /\ currentIndex' = r.currentIndex
       /\ quadtree' = t.node
       /\ trap' = t.trap
       /\ stateVersion' = IF t.trap THEN stateVersion ELSE IncrementVersion(stateVersion)
       /\ lastCall' = Call(name, ~t.trap, 0)
       /\ probe' = IF t.trap THEN ProbeOther(probe)
                   ELSE ProbeOp(probe, name, clean,
                                IF clean THEN probe.before ELSE Obs(obj, objects),
                                Obs(r.W.h, r.W.m), currentIndex + 1, Len(history))
       /\ UNCHANGED <<objects, objectList, nextObjectId>>

\* the shared body of endBatchMove and endBatchResize for a batch in the slot
EndBatch(slot, name, tag) ==
    IF IsEmpty(slot[1])
    THEN /\ lastCall' = Call(name, FALSE, 0)
         /\ probe' = ProbeOther(probe)
         /\ UNCHANGED <<storeVars, stateVersion, histVars, quadtree, trap>>
    ELSE LET r == HistExecute(history, currentIndex, slot[1], World(obj, objects, quadtree))
             t == ReinsertAll(r.W.q, slot[1].objectIds, r.W.m, r.W.h, 1)
             clean == probe.stage = tag
         IN /\ obj' = r.W.h
            /\ history' = r.history
            /\ currentIndex' = r.currentIndex
            /\ quadtree' = t.node
            /\ trap' = t.trap
            /\ stateVersion' = IF t.trap THEN stateVersion ELSE IncrementVersion(stateVersion)
            /\ lastCall' = Call(name, ~t.trap, 0)
            /\ probe' = IF t.trap THEN ProbeOther(probe)
                        ELSE ProbeOp(probe, name, clean,
                                     IF clean THEN probe.before ELSE Obs(obj, objects),
                                     Obs(r.W.h, r.W.m), currentIndex + 1, Len(history))
            /\ UNCHANGED <<objects, objectList, nextObjectId>>

\* endBatchMove
EndBatchMove ==
    /\ canvas /\ ~trap
    /\ IF batchMoveCmd = <<>>
       THEN /\ lastCall' = Call("endBatchMove", FALSE, 0)
            /\ probe' = ProbeOther(probe)
            /\ UNCHANGED <<storeVars, stateVersion, histVars, quadtree, trap, batchMoveCmd>>
       ELSE /\ EndBatch(batchMoveCmd, "endBatchMove", "beginMove")
            /\ batchMoveCmd' = IF trap' THEN batchMoveCmd ELSE <<>>
    /\ UNCHANGED <<batchResizeCmd, visibleObjects, grid, viewVars, store, worker, canvas>>

\* beginBatchResize
BeginBatchResize ==
    /\ canvas /\ ~trap
    /\ batchResizeCmd' = <<BatchResizeCommand>>
    /\ lastCall' = Call("beginBatchResize", TRUE, 0)
    /\ probe' = ProbeBegin(probe, "beginResize", batchMoveCmd = <<>> /\ batchResizeCmd = <<>>,
                           Obs(obj, objects), currentIndex + 1, Len(history))
    /\ UNCHANGED <<storeVars, stateVersion, histVars, batchMoveCmd, quadtree,
                   visibleObjects, grid, viewVars, store, worker, canvas, trap>>

\* addToBatchResize
AddToBatchResize(objectId, newX, newY, newWidth, newHeight) ==
    /\ canvas /\ ~trap
    /\ IF batchResizeCmd = <<>> \/ ~MapHas(objects, objectId)
       THEN /\ lastCall' = Call("addToBatchResize", FALSE, 0)
            /\ UNCHANGED batchResizeCmd
       ELSE LET o == obj[objectId]
                snapped == Snap(grid, newX, newY)
            IN /\ batchResizeCmd' =
                     <<AddResize(batchResizeCmd[1], objectId,
                                 <<o.x, o.y, o.width, o.height>>,
                                 <<snapped[1], snapped[2], SnapValue(grid, newWidth),
                                   SnapValue(grid, newHeight)>>)>>
               /\ lastCall' = Call("addToBatchResize", TRUE, 0)
    /\ probe' = ProbeAdd(probe, "beginResize")
    /\ UNCHANGED <<storeVars, stateVersion, histVars, batchMoveCmd, quadtree,
                   visibleObjects, grid, viewVars, store, worker, canvas, trap>>

\* endBatchResize
EndBatchResize ==
    /\ canvas /\ ~trap
    /\ IF batchResizeCmd = <<>>
       THEN /\ lastCall' = Call("endBatchResize", FALSE, 0)
            /\ probe' = ProbeOther(probe)
            /\ UNCHANGED <<storeVars, stateVersion, histVars, quadtree, trap, batchResizeCmd>>
       ELSE /\ EndBatch(batchResizeCmd, "endBatchResize", "beginResize")
            /\ batchResizeCmd' = IF trap' THEN batchResizeCmd ELSE <<>>
    /\ UNCHANGED <<batchMoveCmd, visibleObjects, grid, viewVars, store, worker, canvas>>

\* the tail of undo / redo after a successful history step: rebuild the
\* quadtree from objects.values(), take objectList from objects.keys()
Resync(r, name) ==
    LET rb == Rebuild(r.W.q, r.W.m, r.W.h)
    IN /\ obj' = r.W.h
       /\ objects' = r.W.m
       /\ currentIndex' = r.currentIndex
       /\ quadtree' = rb.node
       /\ trap' = rb.trap
       /\ objectList' = IF rb.trap THEN objectList ELSE r.W.m
       /\ stateVersion' = IF rb.trap THEN stateVersion ELSE IncrementVersion(stateVersion)
       /\ lastCall' = Call(name, ~rb.trap, 0)

\* a history step that changed nothing, or that trapped inside the command
NoResync(r, name) ==
    /\ obj' = r.W.h
    /\ objects' = r.W.m
    /\ currentIndex' = r.currentIndex
    /\ quadtree' = r.W.q
    /\ trap' = r.W.trap
    /\ lastCall' = Call(name, FALSE, 0)
    /\ UNCHANGED <<objectList, stateVersion>>

\* undo
Undo ==
    LET r == HistUndo(history, currentIndex, World(obj, objects, quadtree))
    IN /\ canvas /\ ~trap
       /\ IF r.ok THEN Resync(r, "undo") ELSE NoResync(r, "undo")
       /\ probe' = IF trap' THEN ProbeOther(probe) ELSE ProbeUndo(probe, r.ok)
       /\ UNCHANGED <<nextObjectId, history, batchVars, visibleObjects, grid,
                      viewVars, store, worker, canvas>>

\* redo
Redo ==
    LET r == HistRedo(history, currentIndex, World(obj, objects, quadtree))
    IN /\ canvas /\ ~trap
       /\ IF r.ok THEN Resync(r, "redo") ELSE NoResync(r, "redo")
       /\ probe' = IF trap' THEN ProbeOther(probe) ELSE ProbeRedo(probe, r.ok)
       /\ UNCHANGED <<nextObjectId, history, batchVars, visibleObjects, grid,
                      viewVars, store, worker, canvas>>

\* a clearCanvas that leaves the command history as it was
ClearCanvasKeepHistory ==
    /\ canvas /\ ~trap
    /\ objects' = <<>>
    /\ objectList' = <<>>
    /\ quadtree' = Rebuild(quadtree, <<>>, obj).node
    /\ stateVersion' = IncrementVersion(stateVersion)
    /\ lastCall' = Call("clearCanvas", TRUE, 0)
    /\ probe' = ProbeClear(probe)
    /\ UNCHANGED <<obj, nextObjectId, histVars, batchVars, visibleObjects, grid,
                   viewVars, store, worker, canvas, trap>>

\* clearCanvas
ClearCanvas ==
    /\ canvas /\ ~trap
    /\ objects' = <<>>
    /\ objectList' = <<>>
    /\ history' = <<>>
    /\ currentIndex' = -1
    /\ quadtree' = Rebuild(quadtree, <<>>, obj).node
    /\ stateVersion' = IncrementVersion(stateVersion)
    /\ lastCall' = Call("clearCanvas", TRUE, 0)
    /\ probe' = ProbeClear(probe)
    /\ UNCHANGED <<obj, nextObjectId, batchVars, visibleObjects, grid, viewVars, store, worker,
                   canvas, trap>>

\* updateViewport
UpdateViewport ==
    /\ canvas /\ ~trap
    /\ visibleObjects' = UpdateVisibleObjects(quadtree, camera, canvasSize, obj)
    /\ lastCall' = Call("updateViewport", TRUE, Len(visibleObjects'))
    /\ probe' = ProbeOther(probe)
    /\ UNCHANGED <<storeVars, stateVersion, histVars, batchVars, quadtree, grid,
                   viewVars, store, worker, canvas, trap>>

\* setGridSnap
SetGridSnap(enabled) ==
    /\ canvas /\ ~trap
    /\ grid' = [grid EXCEPT !.snapEnabled = enabled]
    /\ lastCall' = Call("setGridSnap", TRUE, 0)
    /\ probe' = ProbeOther(probe)
    /\ UNCHANGED <<storeVars, stateVersion, histVars, batchVars, quadtree,
                   visibleObjects, viewVars, store, worker, canvas, trap>>

\* a setGridSize that snaps the stored objects to the new grid
SetGridSizeResnap(size) ==
    /\ canvas /\ ~trap
    /\ grid' = [grid EXCEPT !.gridSize = size]
    /\ obj' = [id \in DOMAIN obj |-> SnapObject(grid', obj[id])]
    /\ lastCall' = Call("setGridSize", TRUE, 0)
    /\ probe' = ProbeOther(probe)
    /\ UNCHANGED <<objects, objectList, nextObjectId, stateVersion, histVars, batchVars,
                   quadtree, visibleObjects, viewVars, store, worker, canvas, trap>>

\* setGridSize
SetGridSize(size) ==
    /\ canvas /\ ~trap
    /\ grid' = [grid EXCEPT !.gridSize = size]
    /\ lastCall' = Call("setGridSize", TRUE, 0)
    /\ probe' = ProbeOther(probe)
    /\ UNCHANGED <<storeVars, stateVersion, histVars, batchVars, quadtree,
                   visibleObjects, viewVars, store, worker, canvas, trap>>

\* the tree stays above the depth where a halving would leave the integers
ExactHalving == TreeDepth(quadtree) < MaxTreeDepth

\* objectExists
ObjectExists(id) == canvas /\ MapHas(objects, id)

\* getObjectX, getObjectY, getObjectWidth, getObjectHeight, getObjectAssetId,
\* getObjectType: the field of the object, 0 for an id the store does not hold
GetObjectX(id) == IF canvas /\ MapHas(objects, id) THEN obj[id].x ELSE 0
GetObjectY(id) == IF canvas /\ MapHas(objects, id) THEN obj[id].y ELSE 0
GetObjectWidth(id) == IF canvas /\ MapHas(objects, id) THEN obj[id].width ELSE 0
GetObjectHeight(id) == IF canvas /\ MapHas(objects, id) THEN obj[id].height ELSE 0
GetObjectAssetId(id) == IF canvas /\ MapHas(objects, id) THEN obj[id].assetId ELSE 0
GetObjectType(id) == IF canvas /\ MapHas(objects, id) THEN obj[id].objectType ELSE 0

\* what syncFromWasm reads of one object
ReadObject(id) ==
    <<GetObjectX(id), GetObjectY(id), GetObjectWidth(id), GetObjectHeight(id),
      GetObjectAssetId(id), GetObjectType(id)>>

\* the object store as the getters show it
StoreView == [id \in Range(objects) |-> ReadObject(id)]

\* getObjectCount
GetObjectCount == IF canvas THEN Len(objects) ELSE 0

\* getObjectIdAtIndex (index from 0)
GetObjectIdAtIndex(index) ==
    IF ~canvas \/ index < 0 \/ index >= Len(objectList) THEN 0
    ELSE objectList[index + 1]

\* getVisibleCount
GetVisibleCount == IF canvas THEN Len(visibleObjects) ELSE 0

\* getVisibleObjectId (index from 0)
GetVisibleObjectId(index) ==
    IF ~canvas \/ index < 0 \/ index >= Len(visibleObjects) THEN 0
    ELSE visibleObjects[index + 1]

\* getStateVersion
GetStateVersion == IF canvas THEN stateVersion ELSE 0

\* canUndo, canRedo of the facade
CanvasCanUndo == canvas /\ CanUndo
CanvasCanRedo == canvas /\ CanRedo

\* getGridSize
GetGridSize == IF canvas THEN grid.gridSize ELSE 20

\* the exported functions that return at once while canvas is null
EarlyReturns ==
    {"clearCanvas", "addObject", "moveObject", "beginBatchMove", "addToBatchMove",
     "endBatchMove", "beginBatchResize", "addToBatchResize", "endBatchResize",
     "resizeObject", "deleteObject", "deleteObjects", "updateViewport", "undo",
     "redo", "setGridSnap"}

\* an addObject that takes an id before it looks for the canvas
UninitializedCounting(op) ==
    /\ ~canvas
    /\ op \in EarlyReturns
    /\ lastCall' = Call(op, FALSE, 0)
    /\ nextObjectId' = IF op = "addObject" THEN NextId(nextObjectId) ELSE nextObjectId
    /\ UNCHANGED <<canvas, obj, objects, objectList, stateVersion, histVars, batchVars,
                   quadtree, visibleObjects, grid, viewVars, store, worker, trap, probe>>

\* a call of one of them before createCanvas: `if (!canvas) return`, with 0
\* or false where the function returns a value
Uninitialized(op) ==
    /\ ~canvas
    /\ op \in EarlyReturns
    /\ lastCall' = Call(op, FALSE, 0)
    /\ UNCHANGED <<canvas, storeVars, stateVersion, histVars, batchVars, quadtree,
                   visibleObjects, grid, viewVars, store, worker, trap, probe>>

\* createCanvas called at any time: canvas = new InfiniteCanvas(...)
CreateCanvasCall(width, height, gridSize) ==
    /\ canvas' = TRUE
    /\ obj' = <<>>
    /\ objects' = <<>>
    /\ objectList' = <<>>
    /\ nextObjectId' = 1
    /\ stateVersion' = 0
    /\ history' = <<>>
    /\ currentIndex' = -1
    /\ batchMoveCmd' = <<>>
    /\ batchResizeCmd' = <<>>
    /\ quadtree' = Quadtree(RootMin, RootMin, RootSize, RootSize)
    /\ visibleObjects' = <<>>
    /\ grid' = [gridSize |-> gridSize, snapEnabled |-> TRUE]
    /\ camera' = [x |-> 0, y |-> 0, zoom |-> 1]
    /\ canvasSize' = [width |-> width, height |-> height]
    /\ trap' = FALSE
    /\ lastCall' = Call("createCanvas", TRUE, 0)
    /\ probe' = ProbeInit
    /\ UNCHANGED <<store, worker>>

\* ------------------------------------------------ the image-loader worker
\* The worker runs one handler at a time; a handler gives way at each await.
\* blobCache and loadingSet are the module's Map (its keys) and Set; fetching
\* counts, per id, the handlers that wait for fetch(src) and response.blob();
\* extracting counts the handlers that wait for the colour of a cached blob;
\* outbox is what the worker has posted to the main thread.
WorkerIds == {"a", "b"}

NewWorker ==
    [blobCache |-> {}, loadingSet |-> {}, fetching |-> [id \in WorkerIds |-> 0],
     extracting |-> [id \in WorkerIds |-> 0], outbox |-> <<>>]

PostMessage(w, type, id) == [w EXCEPT !.outbox = Append(@, [type |-> type, id |-> id])]

\* a load handler that asks only the cache
OnLoadCacheOnly(w, id) ==
    IF id \in w.blobCache THEN PostMessage(w, "cached", id)
    ELSE [w EXCEPT !.loadingSet = @ \cup {id}, !.fetching[id] = @ + 1]

\* self.onmessage for type 'load', up to its first await
OnLoad(w, id) ==
    IF id \in w.blobCache \/ id \in w.loadingSet
    THEN IF id \in w.blobCache THEN PostMessage(w, "cached", id) ELSE w
    ELSE [w EXCEPT !.loadingSet = @ \cup {id}, !.fetching[id] = @ + 1]

\* the handler resumes after fetch and blob: blobCache.set, loadingSet.delete
OnBlob(w, id) ==
    [w EXCEPT !.blobCache = @ \cup {id}, !.loadingSet = @ \ {id},
              !.fetching[id] = @ - 1, !.extracting[id] = @ + 1]

\* the handler resumes after the colour was extracted (or not): it posts 'cached'
OnColor(w, id) == PostMessage([w EXCEPT !.extracting[id] = @ - 1], "cached", id)

\* fetch or blob rejected: the catch branch
OnFetchError(w, id) ==
    PostMessage([w EXCEPT !.loadingSet = @ \ {id}, !.fetching[id] = @ - 1], "error", id)

\* one step of the worker
WorkerStep(op, w, id) ==
    /\ worker' = w
    /\ lastCall' = Call(op, TRUE, id)
    /\ probe' = IF op = "load" THEN probe + 1 ELSE probe
    /\ UNCHANGED <<canvas, storeVars, stateVersion, histVars, batchVars, quadtree,
                   visibleObjects, grid, camera, canvasSize, trap, store>>

\* the main thread posts {type: 'load', id, src} and the handler starts
Load(id) == WorkerStep("load", OnLoad(worker, id), id)

FetchResolves(id) ==
    worker.fetching[id] > 0 /\ WorkerStep("blob", OnBlob(worker, id), id)

FetchRejects(id) ==
    worker.fetching[id] > 0 /\ WorkerStep("fetchError", OnFetchError(worker, id), id)

ColorDone(id) ==
    worker.extracting[id] > 0 /\ WorkerStep("cached", OnColor(worker, id), id)

\* ------------------------------------------------- the editor's Store
\* Store.state.items is a function from ids to items (x, y, width, height);
\* a history entry keeps what its undo and redo closures captured.
\* The undo closure of addItem assigns its Map prevItems to state.items: from
\* then on state.items and prevItems are one object, and every set or delete
\* on state.items changes what the entry captured. The field alias is the
\* place in the history of the entry whose prevItems is state.items (0 when
\* no entry of the history shares the Map).
MaxHistoryLength == 100

StoreGridSize == 25

\* new Editor(): new Store({gridSettings})
NewStore ==
    [items |-> <<>>, selectedIds |-> {}, history |-> <<>>, historyIndex |-> -1,
     batchDepth |-> 0, gridSettings |-> [gridSize |-> StoreGridSize, snapToGrid |-> TRUE],
     alias |-> 0]

\* Map.set, Map.delete
ItemsSet(items, id, item) ==
    [k \in DOMAIN items \cup {id} |-> IF k = id THEN item ELSE items[k]]

ItemsDelete(items, id) == [k \in DOMAIN items \ {id} |-> items[k]]

\* a write that reaches state.items alone, as if undo had installed a copy
WriteItemsCopy(s, items) == [s EXCEPT !.items = items]

\* set and delete calls on the Map state.items, which leave it as items: the
\* entry that shares the Map sees them too
WriteItems(s, items) ==
    IF s.alias \in 1..Len(s.history)
    THEN [s EXCEPT !.items = items, !.history[s.alias].prevItems = items]
    ELSE [s EXCEPT !.items = items]

\* the entry that shares state.items after slice(0, historyIndex + 1), push
\* and, when shifted is true, shift
AliasAfterPush(s, shifted) ==
    IF s.alias > s.historyIndex + 1 THEN 0
    ELSE IF shifted THEN (IF s.alias > 1 THEN s.alias - 1 ELSE 0)
    ELSE s.alias

\* a pushHistory that records during a batch as well
PushHistoryAlways(s, entry) ==
    LET h == Append(SubSeq(s.history, 1, s.historyIndex + 1), entry)
    IN IF Len(h) > MaxHistoryLength
       THEN [s EXCEPT !.history = Tail(h), !.historyIndex = Len(h) - 2,
                      !.alias = AliasAfterPush(s, TRUE)]
       ELSE [s EXCEPT !.history = h, !.historyIndex = Len(h) - 1,
                      !.alias = AliasAfterPush(s, FALSE)]

\* Store.pushHistory
PushHistory(s, entry) ==
    IF s.batchDepth > 0 THEN s
    ELSE LET h == Append(SubSeq(s.history, 1, s.historyIndex + 1), entry)
         IN IF Len(h) > MaxHistoryLength
            THEN [s EXCEPT !.history = Tail(h), !.historyIndex = Len(h) - 2,
                           !.alias = AliasAfterPush(s, TRUE)]
            ELSE [s EXCEPT !.history = h, !.historyIndex = Len(h) - 1,
                           !.alias = AliasAfterPush(s, FALSE)]

\* Store.batch(fn), fn given by the store it leaves
BatchEnter(s) == [s EXCEPT !.batchDepth = @ + 1]

BatchLeave(s) == [s EXCEPT !.batchDepth = @ - 1]

\* Store.addItem with input.id given
StoreAddItem(s, id, item) ==
    PushHistory(WriteItems(s, ItemsSet(s.items, id, item)),
                [type |-> "addItem", id |-> id, item |-> item, prevItems |-> s.items])

\* the forEach of removeItems: <<items, selectedIds, removedItems>>
RECURSIVE RemoveEach(_, _, _, _, _)
RemoveEach(items, sel, removed, ids, i) ==
    IF i > Len(ids) THEN <<items, sel, removed>>
    ELSE IF ids[i] \in DOMAIN items
    THEN RemoveEach(ItemsDelete(items, ids[i]), sel \ {ids[i]},
                    ItemsSet(removed, ids[i], items[ids[i]]), ids, i + 1)
    ELSE RemoveEach(items, sel, removed, ids, i + 1)

\* Store.removeItems
StoreRemoveItems(s, ids) ==
    LET b == BatchEnter(s)
        r == RemoveEach(b.items, b.selectedIds, <<>>, ids, 1)
        t == [WriteItems(b, r[1]) EXCEPT !.selectedIds = r[2]]
    IN BatchLeave(IF DOMAIN r[3] = {} THEN t
                  ELSE PushHistory(t, [type |-> "removeItems", removedItems |-> r[3]]))

\* the forEach of moveItems: <<items, prevPositions>>
RECURSIVE MoveEach(_, _, _, _, _, _)
MoveEach(items, prev, ids, i, dx, dy) ==
    IF i > Len(ids) THEN <<items, prev>>
    ELSE IF ids[i] \in DOMAIN items
    THEN LET item == items[ids[i]]
         IN MoveEach(ItemsSet(items, ids[i], [item EXCEPT !.x = @ + dx, !.y = @ + dy]),
                     ItemsSet(prev, ids[i], [x |-> item.x, y |-> item.y]), ids, i + 1, dx, dy)
    ELSE MoveEach(items, prev, ids, i + 1, dx, dy)

\* Store.moveItems
StoreMoveItems(s, ids, dx, dy) ==
    LET b == BatchEnter(s)
        r == MoveEach(b.items, <<>>, ids, 1, dx, dy)
    IN BatchLeave(PushHistory(WriteItems(b, r[1]),
                              [type |-> "moveItems", ids |-> ids, dx |-> dx, dy |-> dy,
                               prevPositions |-> r[2]]))

\* the forEach of resizeItems: <<items, prevSizes>>
RECURSIVE ResizeEach(_, _, _, _, _)
ResizeEach(items, prev, ids, i, scale) ==
    IF i > Len(ids) THEN <<items, prev>>
    ELSE IF ids[i] \in DOMAIN items
    THEN LET item == items[ids[i]]
         IN ResizeEach(ItemsSet(items, ids[i], [item EXCEPT !.width = @ * scale,
                                                             !.height = @ * scale]),
                       ItemsSet(prev, ids[i], [width |-> item.width, height |-> item.height]),
                       ids, i + 1, scale)
    ELSE ResizeEach(items, prev, ids, i + 1, scale)

\* Store.resizeItems
StoreResizeItems(s, ids, scale) ==
    LET b == BatchEnter(s)
        r == ResizeEach(b.items, <<>>, ids, 1, scale)
    IN BatchLeave(PushHistory(WriteItems(b, r[1]),
                              [type |-> "resizeItems", ids |-> ids, scale |-> scale,
                               prevSizes |-> r[2]]))

\* entry.undo() of the four kinds of entry, on the items
EntryUndo(entry, items) ==
    IF entry.type = "addItem" THEN entry.prevItems
    ELSE IF entry.type = "removeItems"
    THEN [k \in DOMAIN items \cup DOMAIN entry.removedItems |->
            IF k \in DOMAIN entry.removedItems THEN entry.removedItems[k] ELSE items[k]]
    ELSE IF entry.type = "moveItems"
    THEN [k \in DOMAIN items |->
            IF k \in DOMAIN entry.prevPositions
            THEN [items[k] EXCEPT !.x = entry.prevPositions[k].x, !.y = entry.prevPositions[k].y]
            ELSE items[k]]
    ELSE [k \in DOMAIN items |->
            IF k \in DOMAIN entry.prevSizes
            THEN [items[k] EXCEPT !.width = entry.prevSizes[k].width,
                                  !.height = entry.prevSizes[k].height]
            ELSE items[k]]

\* entry.redo() on the items
EntryRedo(entry, items) ==
    IF entry.type = "addItem" THEN ItemsSet(items, entry.id, entry.item)
    ELSE IF entry.type = "removeItems"
    THEN [k \in DOMAIN items \ DOMAIN entry.removedItems |-> items[k]]
    ELSE IF entry.type = "moveItems"
    THEN [k \in DOMAIN items |->
            IF k \in Range(entry.ids)
            THEN [items[k] EXCEPT !.x = entry.prevPositions[k].x + entry.dx,
                                  !.y = entry.prevPositions[k].y + entry.dy]
            ELSE items[k]]
    ELSE [k \in DOMAIN items |->
            IF k \in Range(entry.ids)
            THEN [items[k] EXCEPT !.width = entry.prevSizes[k].width * entry.scale,
                                  !.height = entry.prevSizes[k].height * entry.scale]
            ELSE items[k]]

\* Store.canUndo, Store.canRedo
StoreCanUndo(s) == s.historyIndex >= 0

StoreCanRedo(s) == s.historyIndex < Len(s.history) - 1

\* Store.undo: the undo of an addItem entry makes state.items the entry's Map,
\* the undo of the other entries writes into the Map state.items is
StoreUndo(s) ==
    IF ~StoreCanUndo(s) THEN s
    ELSE LET entry == s.history[s.historyIndex + 1]
         IN IF entry.type = "addItem"
            THEN [s EXCEPT !.items = EntryUndo(entry, s.items),
                           !.alias = s.historyIndex + 1,
                           !.historyIndex = @ - 1]
            ELSE [WriteItems(s, EntryUndo(entry, s.items)) EXCEPT !.historyIndex = @ - 1]

\* Store.redo
StoreRedo(s) ==
    IF ~StoreCanRedo(s) THEN s
    ELSE LET entry == s.history[s.historyIndex + 2]
         IN [WriteItems(s, EntryRedo(entry, s.items)) EXCEPT
                      !.selectedIds = IF entry.type = "removeItems"
                                      THEN @ \ DOMAIN entry.removedItems ELSE @,
                      !.historyIndex = @ + 1]

\* Store.clearHistory
StoreClearHistory(s) == [s EXCEPT !.history = <<>>, !.historyIndex = -1, !.alias = 0]

\* snapToGrid of the primitives package: Math.round(value / gridSize) * gridSize
SnapToGrid(value, gridSize) == RoundDiv(value, gridSize) * gridSize

EditorSnap(s, v) ==
    IF s.gridSettings.snapToGrid THEN SnapToGrid(v, s.gridSettings.gridSize) ELSE v

\* one call on the editor: the store it leaves and what the caller is told
EditorCall(op, s, val) ==
    /\ store' = s
    /\ lastCall' = Call(op, TRUE, val)
    /\ probe' = probe + 1
    /\ UNCHANGED <<canvas, storeVars, stateVersion, histVars, batchVars, quadtree,
                   visibleObjects, grid, camera, canvasSize, trap, worker>>

\* Editor.addItem of an image
EditorAddItem(id, x, y, width, height) ==
    EditorCall("addItem",
               StoreAddItem(store, id, [x |-> EditorSnap(store, x), y |-> EditorSnap(store, y),
                                        width |-> width, height |-> height]), id)

\* Editor.removeItems
EditorRemoveItems(ids) == EditorCall("removeItems", StoreRemoveItems(store, ids), 0)

\* Editor.moveItems
EditorMoveItems(ids, dx, dy) ==
    EditorCall("moveItems",
               StoreMoveItems(store, ids, EditorSnap(store, dx), EditorSnap(store, dy)), 0)

\* Editor.resizeItems
EditorResizeItems(ids, scale) ==
    EditorCall("resizeItems", StoreResizeItems(store, ids, scale), 0)

\* Editor.undo, Editor.redo, Editor.clearHistory
EditorUndo == EditorCall("undo", StoreUndo(store), 0)

EditorRedo == EditorCall("redo", StoreRedo(store), 0)

EditorClearHistory == EditorCall("clearHistory", StoreClearHistory(store), 0)

\* ------------------------------------------------------ the session, Spec
\* createCanvas(800, 600, 20), then any calls with these arguments
GridSize == 20
Positions == {<<0, 0>>, <<1005, 203>>}
AddSizes == {<<100, 100>>}
ResizeTo == {<<1005, 203, 30, 50>>}
BatchMoveTo == {<<1005, 203>>}
BatchResizeTo == {<<1005, 203, 30, 50>>}
CallIds == 1..MaxId
IdArrays == {<<2, 1>>, <<MaxId + 1>>}

Init == CreateCanvas(DefaultCanvasWidth, DefaultCanvasHeight, GridSize) /\ store = NewStore /\ worker = NewWorker

Room == stateVersion < MaxVersion

\* no batch is being staged
NoBatch == batchMoveCmd = <<>> /\ batchResizeCmd = <<>>

\* a gesture stages each object once
Unstaged(slot, id) == slot # <<>> /\ id \notin Range(slot[1].objectIds)

\* The caller of Spec keeps to section 5 of the specification: between
\* beginBatchX and endBatchX it makes no other call than addToBatchX.
Next ==
    \/ \E p \in Positions, s \in AddSizes :
          /\ nextObjectId <= MaxId /\ Room /\ NoBatch
          /\ AddObject(p[1], p[2], s[1], s[2], 1, 1)
    \/ \E id \in CallIds, p \in Positions : Room /\ NoBatch /\ MoveObject(id, p[1], p[2])
    \/ \E id \in CallIds, d \in ResizeTo :
          Room /\ NoBatch /\ ResizeObject(id, d[1], d[2], d[3], d[4])
    \/ \E id \in CallIds : Room /\ NoBatch /\ DeleteObject(id)
    \/ \E ids \in IdArrays : Room /\ NoBatch /\ DeleteObjects(ids)
    \/ Room /\ NoBatch /\ BeginBatchMove
    \/ \E id \in CallIds, p \in BatchMoveTo :
          Unstaged(batchMoveCmd, id) /\ AddToBatchMove(id, p[1], p[2])
    \/ batchMoveCmd # <<>> /\ EndBatchMove
    \/ Room /\ NoBatch /\ BeginBatchResize
    \/ \E id \in CallIds, d \in BatchResizeTo :
          Unstaged(batchResizeCmd, id) /\ AddToBatchResize(id, d[1], d[2], d[3], d[4])
    \/ batchResizeCmd # <<>> /\ EndBatchResize
    \/ Room /\ NoBatch /\ Undo
    \/ Room /\ NoBatch /\ Redo
    \/ Room /\ NoBatch /\ ClearCanvas

Spec == Init /\ [][Next]_vars

\* ------------------------------------------- the session of one object, SpecHist
\* add, move, undo and redo only, long enough to fill the history, overflow
\* it and undo past its start (one more undo than there is room for calls)
HistRoom == stateVersion < 2 * MaxHistory + 1

NextHist ==
    \/ \E p \in Positions, s \in AddSizes :
          /\ nextObjectId <= MaxId /\ HistRoom
          /\ AddObject(p[1], p[2], s[1], s[2], 1, 1)
    \/ \E id \in CallIds, p \in Positions : HistRoom /\ MoveObject(id, p[1], p[2])
    \/ stateVersion <= 2 * MaxHistory + 1 /\ Undo
    \/ HistRoom /\ Redo

SpecHist == Init /\ [][NextHist]_vars

\* ------------------------------------- add, move and resize only, SpecAMR
NextAMR ==
    \/ \E p \in Positions, s \in AddSizes :
          /\ nextObjectId <= MaxId /\ Room
          /\ AddObject(p[1], p[2], s[1], s[2], 1, 1)
    \/ \E id \in CallIds, p \in Positions : Room /\ MoveObject(id, p[1], p[2])
    \/ \E id \in CallIds, d \in ResizeTo :
          Room /\ ResizeObject(id, d[1], d[2], d[3], d[4])

SpecAMR == Init /\ [][NextAMR]_vars

\* --------------------------------------- the Quadtree called alone, SpecQT
\* A test drives the tree of a new canvas through insert, remove and
\* queryViewport, and keeps the list of what is inserted (objects) as the
\* reference for a linear scan.  The inserted rectangles lie inside the root
\* and on the lattice; the first query range lies inside the southwest
\* quadrant of the root, off every quadrant boundary.
QtRects ==
    {<<-Lattice, -Lattice, 2 * Lattice, 2 * Lattice>>,
     <<Lattice, Lattice, Lattice, Lattice>>,
     <<-2 * Lattice, -2 * Lattice, Lattice, Lattice>>}

QtRanges ==
    <<AABB(-30000, 10000, 20000, 20000),
      AABB(RootMin, RootMin, RootSize, RootSize),
      AABB(Lattice, -2 * Lattice, Lattice, Lattice)>>

QtRoom == probe.calls < MaxQtCalls

\* quadtree.insert(new CanvasObject(id, x, y, w, h))
QtInsertNew(x, y, w, h) ==
    LET id == nextObjectId
        heap == Append(obj, CanvasObject(id, x, y, w, h))
        r == QtInsert(quadtree, id, heap)
    IN /\ ~trap
       /\ obj' = heap
       /\ nextObjectId' = NextId(id)
       /\ quadtree' = r.node
       /\ trap' = r.trap
       /\ objects' = IF r.trap THEN objects ELSE MapSet(objects, id)
       /\ lastCall' = Call("insert", ~r.trap, id)
       /\ probe' = [ProbeOther(probe) EXCEPT !.calls = @ + 1]
       /\ UNCHANGED <<objectList, stateVersion, histVars, batchVars,
                      visibleObjects, grid, viewVars, store, worker, canvas>>

\* quadtree.insert(o) of an object that was removed before
QtInsertAgain(id) ==
    LET r == QtInsert(quadtree, id, obj)
    IN /\ ~trap
       /\ id \in 1..Len(obj) /\ ~MapHas(objects, id)
       /\ quadtree' = r.node
       /\ trap' = r.trap
       /\ objects' = IF r.trap THEN objects ELSE MapSet(objects, id)
       /\ lastCall' = Call("insert", ~r.trap, id)
       /\ probe' = [ProbeOther(probe) EXCEPT !.calls = @ + 1]
       /\ UNCHANGED <<obj, objectList, nextObjectId, stateVersion, histVars,
                      batchVars, visibleObjects, grid, viewVars, store, worker, canvas>>

\* quadtree.remove(id) of an inserted object
QtRemoveCall(id) ==
    /\ ~trap
    /\ MapHas(objects, id)
    /\ quadtree' = QtRemove(quadtree, id)
    /\ objects' = MapDelete(objects, id)
    /\ lastCall' = Call("remove", TRUE, id)
    /\ probe' = [ProbeOther(probe) EXCEPT !.calls = @ + 1]
    /\ UNCHANGED <<obj, objectList, nextObjectId, stateVersion, histVars,
                   batchVars, visibleObjects, grid, viewVars, store, worker, canvas, trap>>

\* found = quadtree.queryViewport(QtRanges[k]); the test keeps found
QtQueryCall(k) ==
    /\ ~trap
    /\ visibleObjects' = QueryViewport(quadtree, QtRanges[k], obj)
    /\ lastCall' = Call("queryViewport", TRUE, k)
    /\ probe' = ProbeOther(probe)
    /\ UNCHANGED <<storeVars, stateVersion, histVars, batchVars, quadtree,
                   grid, viewVars, store, worker, canvas, trap>>

NextQT ==
    \/ \E r \in QtRects :
          /\ nextObjectId <= MaxQtObjects /\ QtRoom
          /\ QtInsertNew(r[1], r[2], r[3], r[4])
    \/ \E id \in 1..MaxQtObjects : QtRoom /\ QtInsertAgain(id)
    \/ \E id \in 1..MaxQtObjects : QtRoom /\ QtRemoveCall(id)
    \/ \E k \in DOMAIN QtRanges : QtQueryCall(k)

SpecQT == Init /\ [][NextQT]_vars

\* ------------------------------------- a canvas with many objects, SpecCrowd
\* createCanvas(800, 600, Lattice): every snapped coordinate is on the lattice
CrowdRects ==
    {<<-Lattice, -Lattice, 2 * Lattice, 2 * Lattice>>,
     <<Lattice, Lattice, Lattice, Lattice>>}

InitCrowd == CreateCanvas(DefaultCanvasWidth, DefaultCanvasHeight, Lattice) /\ store = NewStore /\ worker = NewWorker

CrowdRoom == stateVersion < MaxCrowdCalls

NextCrowd ==
    \/ \E r \in CrowdRects :
          /\ nextObjectId <= MaxQtObjects /\ CrowdRoom
          /\ AddObject(r[1], r[2], r[3], r[4], 1, 1)
    \/ \E id \in 1..MaxQtObjects : CrowdRoom /\ DeleteObject(id)
    \/ CrowdRoom /\ Undo
    \/ CrowdRoom /\ Redo
    \/ UpdateViewport

SpecCrowd == InitCrowd /\ [][NextCrowd]_vars

\* ------------------------------- every kind of call of the facade, SpecFree
\* The calls of Spec with two asset ids, and next to them the calls that
\* record nothing: updateViewport, setGridSnap, deleteObjects of an empty
\* array, an endBatch with no batch begun.
FreeRoom == stateVersion < MaxFreeVersion

FreeAssets == {1, 2}

NextFree ==
    \/ \E s \in AddSizes, a \in FreeAssets :
          /\ nextObjectId <= MaxId /\ FreeRoom /\ NoBatch
          /\ AddObject(0, 0, s[1], s[2], a, a)
    \/ \E id \in CallIds, p \in BatchMoveTo :
          FreeRoom /\ NoBatch /\ MoveObject(id, p[1], p[2])
    \/ \E id \in CallIds, d \in ResizeTo :
          FreeRoom /\ NoBatch /\ ResizeObject(id, d[1], d[2], d[3], d[4])
    \/ \E id \in CallIds : FreeRoom /\ NoBatch /\ DeleteObject(id)
    \/ \E ids \in IdArrays \cup {<<>>} : FreeRoom /\ NoBatch /\ DeleteObjects(ids)
    \/ FreeRoom /\ NoBatch /\ BeginBatchMove
    \/ \E id \in CallIds, p \in BatchMoveTo :
          Unstaged(batchMoveCmd, id) /\ AddToBatchMove(id, p[1], p[2])
    \/ batchResizeCmd = <<>> /\ EndBatchMove
    \/ FreeRoom /\ NoBatch /\ BeginBatchResize
    \/ \E id \in CallIds, d \in BatchResizeTo :
          Unstaged(batchResizeCmd, id) /\ AddToBatchResize(id, d[1], d[2], d[3], d[4])
    \/ batchMoveCmd = <<>> /\ EndBatchResize
    \/ (FreeRoom \/ ~CanUndo) /\ NoBatch /\ Undo
    \/ (FreeRoom \/ ~CanRedo) /\ NoBatch /\ Redo
    \/ FreeRoom /\ NoBatch /\ ClearCanvas
    \/ NoBatch /\ UpdateViewport
    \/ \E enabled \in BOOLEAN : NoBatch /\ SetGridSnap(enabled)

SpecFree == Init /\ [][NextFree]_vars

\* ------------------------------------ GridSystem in f32 arithmetic, SpecSnap
\* GridSystem computes in f32.  A finite f32 is written [m, e] for m * 2^e,
\* with 2^23 <= |m| < 2^24, or m = 0 and e = 0 for zero.  Quotient and product
\* are rounded to nearest, ties to even, as the wasm f32.div and f32.mul are;
\* the magnitudes used stay clear of overflow and of the subnormal numbers.
MantissaBits == 24

Two23 == 2^(MantissaBits - 1)
Two24 == 2^MantissaBits
Two12 == 2^(MantissaBits \div 2)

Abs(n) == IF n < 0 THEN -n ELSE n
Sign(n) == IF n < 0 THEN -1 ELSE 1

F32(m, e) == [m |-> m, e |-> e]
FZero == F32(0, 0)

\* an integer of magnitude up to 2^24 as an f32 (exact)
RECURSIVE FNorm(_, _)
FNorm(m, e) ==
    IF m = 0 THEN FZero
    ELSE IF Abs(m) >= Two24 THEN FNorm(m \div 2, e + 1)
    ELSE IF Abs(m) < Two23 THEN FNorm(2 * m, e - 1)
    ELSE F32(m, e)

FromInt(k) == FNorm(k, 0)

\* mag * 2^e for a magnitude of 24 bits and a guard bit below them, with
\* sticky telling that bits below the guard bit were not zero
FRoundEven(sign, mag, e, sticky) ==
    LET kept == mag \div 2
        guard == mag % 2
        up == guard = 1 /\ (sticky \/ kept % 2 = 1)
        m == IF up THEN kept + 1 ELSE kept
    IN IF m = Two24 THEN F32(sign * Two23, e + 2) ELSE F32(sign * m, e + 1)

\* n more quotient bits of r / b by shift and subtract, r < b
RECURSIVE LongDiv(_, _, _, _)
LongDiv(r, b, n, q) ==
    IF n = 0 THEN <<q, r>>
    ELSE IF 2 * r >= b THEN LongDiv(2 * r - b, b, n - 1, 2 * q + 1)
    ELSE LongDiv(2 * r, b, n - 1, 2 * q)

\* x / y in f32, y not zero
FDiv(x, y) ==
    IF x.m = 0 THEN FZero
    ELSE LET a == Abs(x.m)
             b == Abs(y.m)
             n == IF a >= b THEN MantissaBits ELSE MantissaBits + 1
             d == LongDiv(a % b, b, n, a \div b)
         IN FRoundEven(Sign(x.m) * Sign(y.m), d[1], x.e - y.e - n, d[2] # 0)

\* x * y in f32: the 48-bit product of the mantissas in two halves of 24 bits
FMul(x, y) ==
    IF x.m = 0 \/ y.m = 0 THEN FZero
    ELSE LET a == Abs(x.m)
             b == Abs(y.m)
             a1 == a \div Two12
             a0 == a % Two12
             b1 == b \div Two12
             b0 == b % Two12
             mid == a1 * b0 + a0 * b1
             t == (mid % Two12) * Two12 + a0 * b0
             lo == t % Two24
             hi == a1 * b1 + mid \div Two12 + t \div Two24
             sign == Sign(x.m) * Sign(y.m)
         IN IF hi >= Two23
            THEN FRoundEven(sign, 2 * hi + lo \div Two23, x.e + y.e + MantissaBits - 1,
                            lo % Two23 # 0)
            ELSE FRoundEven(sign, 4 * hi + lo \div (Two23 \div 2),
                            x.e + y.e + MantissaBits - 2, lo % (Two23 \div 2) # 0)

\* Mathf.round: the nearest integer, a half goes up
FRound(x) ==
    IF x.e >= 0 THEN x
    ELSE IF x.e < -MantissaBits THEN FZero
    ELSE FromInt((x.m + 2^(-x.e - 1)) \div 2^(-x.e))

\* GridSystem.snapValue in f32
FSnapValue(g, v) ==
    IF g.snapEnabled THEN FMul(FRound(FDiv(v, g.gridSize)), g.gridSize) ELSE v

\* GridSystem.snap in f32
FSnap(g, x, y) ==
    IF g.snapEnabled
    THEN <<FMul(FRound(FDiv(x, g.gridSize)), g.gridSize),
           FMul(FRound(FDiv(y, g.gridSize)), g.gridSize)>>
    ELSE <<x, y>>

\* new GridSystem(gridSize) for the grid sizes 20, 7, 0.5 and 0.1 (the f32
\* nearest to 0.1 is 13421773 * 2^-27)
SnapGrids == {FromInt(20), FromInt(7), F32(Two23, -MantissaBits), F32(13421773, -27)}

\* two values that lie between 2^22 and 2^23 cells from the origin, where
\* the f32 quotient has steps of one half: 150175952 = 9385997 * 2^4 for the
\* grid of 20, and 531874.375 = 8509990 * 2^-4 for the grid of 0.1
FarValues == {F32(9385997, 4), F32(8509990, -4)}

\* the values snapped: the integers up to MaxSnapValue, the halves between
\* them, and the far values
SnapValues ==
    {FromInt(k) : k \in (-MaxSnapValue)..MaxSnapValue}
    \cup {FNorm(2 * k + 1, -1) : k \in (-MaxSnapValue)..MaxSnapValue}
    \cup FarValues

InitSnap ==
    /\ \E g \in SnapGrids : CreateCanvas(DefaultCanvasWidth, DefaultCanvasHeight, g)
    /\ store = NewStore /\ worker = NewWorker

\* s = grid.snapValue(v); grid.snapValue(s)
SnapValueCall(v) ==
    LET s == FSnapValue(grid, v)
    IN /\ lastCall' = Call("snapValue", TRUE, <<v, s, FSnapValue(grid, s)>>)
       /\ UNCHANGED <<storeVars, stateVersion, histVars, batchVars, quadtree,
                      visibleObjects, grid, viewVars, store, worker, canvas, trap, probe>>

\* s = grid.snap(x, y); grid.snap(s[0], s[1])
SnapCall(x, y) ==
    LET s == FSnap(grid, x, y)
    IN /\ lastCall' = Call("snap", TRUE, <<<<x, y>>, s, FSnap(grid, s[1], s[2])>>)
       /\ UNCHANGED <<storeVars, stateVersion, histVars, batchVars, quadtree,
                      visibleObjects, grid, viewVars, store, worker, canvas, trap, probe>>

NextSnap ==
    \/ \E v \in SnapValues : SnapValueCall(v)
    \/ \E x \in SnapValues, y \in {FromInt(3)} \cup FarValues : SnapCall(x, y)
    \/ \E enabled \in BOOLEAN : SetGridSnap(enabled)

SpecSnap == InitSnap /\ [][NextSnap]_vars

\* ------------------------------------- objects of every positive size, SpecSize
\* createCanvas(800, 600, gridSize) for a grid of 20 or 50; objects are added
\* and resized, alone and in batches, to sizes above and below half a cell,
\* with the snapping switched on and off.
SizeGrids == {GridSize, 50}
SmallSizes == {<<100, 100>>, <<5, 8>>}
SmallResizeTo == {<<0, 0, 30, 50>>, <<0, 0, 4, 4>>}

InitSize ==
    /\ \E g \in SizeGrids : CreateCanvas(DefaultCanvasWidth, DefaultCanvasHeight, g)
    /\ store = NewStore /\ worker = NewWorker

SizeRoom == stateVersion < MaxSizeVersion

NextSize ==
    \/ \E s \in SmallSizes :
          /\ nextObjectId <= MaxId /\ SizeRoom /\ NoBatch
          /\ AddObject(0, 0, s[1], s[2], 1, 1)
    \/ \E id \in CallIds, d \in SmallResizeTo :
          SizeRoom /\ NoBatch /\ ResizeObject(id, d[1], d[2], d[3], d[4])
    \/ SizeRoom /\ NoBatch /\ BeginBatchResize
    \/ \E id \in CallIds, d \in SmallResizeTo :
          Unstaged(batchResizeCmd, id) /\ AddToBatchResize(id, d[1], d[2], d[3], d[4])
    \/ batchResizeCmd # <<>> /\ EndBatchResize
    \/ \E enabled \in BOOLEAN : NoBatch /\ SetGridSnap(enabled)

SpecSize == InitSize /\ [][NextSize]_vars

\* ------------------------------- from the load of the module on, SpecNull
\* `let canvas: InfiniteCanvas | null = null`: there is no instance and so no
\* field; the variables of the fields hold values that no instance has
NoCanvas ==
    /\ canvas = FALSE
    /\ obj = <<>>
    /\ objects = <<>>
    /\ objectList = <<>>
    /\ nextObjectId = 0
    /\ stateVersion = -1
    /\ history = <<>>
    /\ currentIndex = -2
    /\ batchMoveCmd = <<>>
    /\ batchResizeCmd = <<>>
    /\ quadtree = <<>>
    /\ visibleObjects = <<>>
    /\ grid = <<>>
    /\ camera = <<>>
    /\ canvasSize = <<>>
    /\ trap = FALSE
    /\ lastCall = Call("load", TRUE, 0)
    /\ probe = ProbeInit
    /\ store = NewStore /\ worker = NewWorker

NullRoom == stateVersion < MaxNullVersion

NextNull ==
    \/ \E op \in EarlyReturns : Uninitialized(op)
    \/ /\ ~canvas \/ stateVersion > 0
       /\ CreateCanvasCall(DefaultCanvasWidth, DefaultCanvasHeight, GridSize)
    \/ \E p \in Positions, s \in AddSizes :
          /\ nextObjectId <= MaxId /\ NullRoom
          /\ AddObject(p[1], p[2], s[1], s[2], 1, 1)
    \/ \E id \in CallIds : NullRoom /\ DeleteObject(id)
    \/ (NullRoom \/ ~CanUndo) /\ Undo
    \/ (NullRoom \/ ~CanRedo) /\ Redo
    \/ UpdateViewport

SpecNull == NoCanvas /\ [][NextNull]_vars

\* ----------------------------------- the move scenario and its kin, SpecMove
\* createCanvas(800, 600, 20); addObject(0, 0, 100, 100, 1, 1); then
\* moveObject to (205, 203) or (1005, 203), undo and redo in any order
MoveTargets == {<<205, 203>>, <<1005, 203>>}

NextMove ==
    \/ /\ nextObjectId <= MaxId /\ Room
       /\ AddObject(0, 0, 100, 100, 1, 1)
    \/ \E id \in CallIds, p \in MoveTargets : Room /\ MoveObject(id, p[1], p[2])
    \/ (Room \/ ~CanUndo) /\ Undo
    \/ (Room \/ ~CanRedo) /\ Redo

SpecMove == Init /\ [][NextMove]_vars

\* ------------------------------------------------ viewport culling scenario
\* A fresh canvas with the default camera shows the world rectangle
\* (-400, -300, 800, 600). Objects are drawn from rectangles lying fully in
\* it and rectangles strictly outside it, each rectangle added at most once,
\* in any order; updateViewport may be called at any time.
MaxCullObjects == 5

CullInside == {<<20, 20, 100, 100>>, <<-200, -200, 100, 100>>,
               <<-60, -40, 120, 80>>, <<-400, -300, 800, 600>>}

CullOutside == {<<1000, 1000, 100, 100>>, <<-2000, 400, 100, 100>>,
                <<420, -300, 100, 100>>}

RectOf(id) == <<obj[id].x, obj[id].y, obj[id].width, obj[id].height>>

NextCull ==
    \/ \E r \in CullInside \cup CullOutside :
         /\ nextObjectId <= MaxCullObjects
         /\ \A id \in Range(objects) : RectOf(id) # r
         /\ AddObject(r[1], r[2], r[3], r[4], 1, 1)
    \/ UpdateViewport

SpecCull == Init /\ [][NextCull]_vars

\* ------------------------------------------------------------ camera (f32)
\* The camera computes in f32. NaN is written as the mantissa 0 with the
\* exponent 1, which no number has; an operation with a NaN operand gives NaN
\* (WebAssembly f32.add, f32.sub, f32.mul, f32.div, f32.min, f32.max).
FNaN == F32(0, 1)

IsNaN(x) == x = FNaN

Num(a, b, r) == IF IsNaN(a) \/ IsNaN(b) THEN FNaN ELSE r

FNeg(x) == IF IsNaN(x) THEN FNaN ELSE F32(-x.m, x.e)

\* mag * 2^e brought below 2^25, with sticky telling that a bit was lost
RECURSIVE ShiftDown(_, _, _)
ShiftDown(mag, e, sticky) ==
    IF mag >= 2 * Two24 THEN ShiftDown(mag \div 2, e + 1, sticky \/ mag % 2 = 1)
    ELSE <<mag, e, sticky>>

\* mag * 2^e brought up to 2^24 (exact)
RECURSIVE ShiftUp(_, _)
ShiftUp(mag, e) == IF mag < Two24 THEN ShiftUp(2 * mag, e - 1) ELSE <<mag, e>>

\* x + y in f32 for numbers: three more bits below the mantissa of the
\* operand with the greater exponent, the bits of the other operand that
\* fall below them kept as a sticky last bit, then round to nearest even
FAddNum(x, y) ==
    IF x.m = 0 THEN y
    ELSE IF y.m = 0 THEN x
    ELSE LET hi == IF x.e >= y.e THEN x ELSE y
             lo == IF x.e >= y.e THEN y ELSE x
             d == hi.e - lo.e
             mag == 8 * Abs(lo.m)
             q == IF d >= MantissaBits + 4 THEN 0 ELSE mag \div 2^d
             lost == IF d >= MantissaBits + 4 THEN TRUE ELSE mag % 2^d # 0
             b == IF lost THEN q - (q % 2) + 1 ELSE q
             s == 8 * hi.m + Sign(lo.m) * b
             t == ShiftDown(Abs(s), hi.e - 3, FALSE)
             u == ShiftUp(t[1], t[2])
         IN IF s = 0 THEN FZero ELSE FRoundEven(Sign(s), u[1], u[2], t[3])

FAdd(x, y) == Num(x, y, FAddNum(x, y))

FSub(x, y) == FAdd(x, FNeg(y))

\* x < y for numbers
FLess(x, y) == FSub(x, y).m < 0

\* Mathf.min, Mathf.max
FMin(x, y) == Num(x, y, IF FLess(y, x) THEN y ELSE x)

FMax(x, y) == Num(x, y, IF FLess(x, y) THEN y ELSE x)

\* the literals 0.1 and 10.0 of Camera.zoomAt as f32
MinZoom == F32(13421773, -27)

MaxZoom == FromInt(10)

\* Mathf.max(0.1, Mathf.min(10.0, z))
Clamp(z) == FMax(MinZoom, FMin(MaxZoom, z))

\* new Camera()
NewCamera == [x |-> FZero, y |-> FZero, zoom |-> FromInt(1)]

\* Camera.pan
CameraPan(cam, dx, dy) ==
    [cam EXCEPT !.x = FAdd(cam.x, Num(dx, cam.zoom, FDiv(dx, cam.zoom))),
                !.y = FAdd(cam.y, Num(dy, cam.zoom, FDiv(dy, cam.zoom)))]

\* Camera.zoomAt
ZoomAt(cam, centerX, centerY, delta) ==
    LET oldZoom == cam.zoom
        zoom == Clamp(FAdd(cam.zoom, delta))
        zoomRatio == Num(zoom, oldZoom, FDiv(zoom, oldZoom))
        scaledX == FSub(centerX, cam.x)
        scaledY == FSub(centerY, cam.y)
    IN [x |-> FSub(centerX, Num(scaledX, zoomRatio, FMul(scaledX, zoomRatio))),
        y |-> FSub(centerY, Num(scaledY, zoomRatio, FMul(scaledY, zoomRatio))),
        zoom |-> zoom]

\* Camera.screenToWorld
ScreenToWorld(cam, screenX, screenY, canvasWidth, canvasHeight) ==
    LET offX == FSub(screenX, FDiv(canvasWidth, FromInt(2)))
        offY == FSub(screenY, FDiv(canvasHeight, FromInt(2)))
    IN <<FAdd(cam.x, Num(offX, cam.zoom, FDiv(offX, cam.zoom))),
         FAdd(cam.y, Num(offY, cam.zoom, FDiv(offY, cam.zoom)))>>

\* The camera is driven on a new canvas of 800 by 600; probe counts the
\* camera calls made. Every call records the world point under the screen
\* point of the call before and after it.
MaxCamCalls == 3

InitCam ==
    /\ canvas = TRUE
    /\ obj = <<>> /\ objects = <<>> /\ objectList = <<>>
    /\ nextObjectId = 1 /\ stateVersion = 0
    /\ history = <<>> /\ currentIndex = -1
    /\ batchMoveCmd = <<>> /\ batchResizeCmd = <<>>
    /\ quadtree = Quadtree(RootMin, RootMin, RootSize, RootSize)
    /\ visibleObjects = <<>>
    /\ grid = [gridSize |-> FromInt(GridSize), snapEnabled |-> TRUE]
    /\ camera = NewCamera
    /\ canvasSize = [width |-> FromInt(DefaultCanvasWidth), height |-> FromInt(DefaultCanvasHeight)]
    /\ trap = FALSE
    /\ lastCall = Call("createCanvas", TRUE, 0)
    /\ probe = 0
    /\ store = NewStore /\ worker = NewWorker

\* zoom(centerX, centerY, delta)
Zoom(centerX, centerY, delta) ==
    /\ canvas
    /\ camera' = ZoomAt(camera, centerX, centerY, delta)
    /\ lastCall' = Call("zoom", TRUE,
                        [delta |-> delta,
                         before |-> ScreenToWorld(camera, centerX, centerY,
                                                  canvasSize.width, canvasSize.height),
                         after |-> ScreenToWorld(camera', centerX, centerY,
                                                 canvasSize.width, canvasSize.height)])
    /\ probe' = probe + 1
    /\ UNCHANGED <<storeVars, stateVersion, histVars, batchVars, quadtree,
                   visibleObjects, grid, canvasSize, canvas, trap, store, worker>>

\* pan(dx, dy)
Pan(dx, dy) ==
    /\ canvas
    /\ camera' = CameraPan(camera, dx, dy)
    /\ lastCall' = Call("pan", TRUE, 0)
    /\ probe' = probe + 1
    /\ UNCHANGED <<storeVars, stateVersion, histVars, batchVars, quadtree,
                   visibleObjects, grid, canvasSize, canvas, trap, store, worker>>

\* 0.1, 1, 0.5 and 20 with both signs, a delta far below one step of the
\* zoom, and NaN
ZoomDeltas ==
    {F32(13421773, -27), F32(-13421773, -27), FromInt(1), FromInt(-1),
     FNorm(1, -1), FromInt(20), FromInt(-20), FNorm(1, -30), FNaN}

ZoomCenters == {<<FZero, FZero>>, <<FromInt(400), FromInt(300)>>, <<FromInt(100), FromInt(500)>>}

NextCam ==
    \/ \E c \in ZoomCenters, delta \in ZoomDeltas :
         probe < MaxCamCalls /\ Zoom(c[1], c[2], delta)
    \/ probe < MaxCamCalls /\ Pan(FromInt(10), FromInt(-20))

SpecCam == InitCam /\ [][NextCam]_vars

\* -------------------------------------------------------- editor sessions
\* new Editor(), then up to MaxEditorCalls calls (probe counts them) with
\* the ids a and b of items and the id c of none
MaxEditorCalls == 4

InitEditor ==
    /\ canvas = FALSE
    /\ obj = <<>> /\ objects = <<>> /\ objectList = <<>>
    /\ nextObjectId = 0 /\ stateVersion = -1
    /\ history = <<>> /\ currentIndex = -2
    /\ batchMoveCmd = <<>> /\ batchResizeCmd = <<>>
    /\ quadtree = <<>> /\ visibleObjects = <<>>
    /\ grid = <<>> /\ camera = <<>> /\ canvasSize = <<>>
    /\ trap = FALSE
    /\ lastCall = Call("load", TRUE, 0)
    /\ probe = 0
    /\ store = NewStore /\ worker = NewWorker

EditorIds == {<<"a">>, <<"b", "a">>, <<"c">>}

NextEditor ==
    /\ probe < MaxEditorCalls
    /\ \/ \E id \in {"a", "b"}, p \in {<<0, 0>>, <<110, 40>>} :
            EditorAddItem(id, p[1], p[2], 100, 100)
       \/ \E ids \in EditorIds : EditorRemoveItems(ids)
       \/ \E ids \in EditorIds, d \in {<<50, 0>>, <<10, 10>>} : EditorMoveItems(ids, d[1], d[2])
       \/ \E ids \in EditorIds : EditorResizeItems(ids, 2)
       \/ EditorUndo
       \/ EditorRedo
       \/ EditorClearHistory

SpecEditor == InitEditor /\ [][NextEditor]_vars

\* ------------------------------------------- undo and redo over many objects
\* The canvas of SpecCrowd with a third rectangle that lies outside the root
\* boundary; addObject, undo and redo only, long enough to redo the fifth add.
MaxRebuildCalls == 7

RebuildRects == CrowdRects \cup {<<3 * Lattice, 3 * Lattice, Lattice, Lattice>>}

NextRebuild ==
    \/ \E r \in RebuildRects :
          /\ nextObjectId <= MaxQtObjects /\ stateVersion < MaxRebuildCalls
          /\ AddObject(r[1], r[2], r[3], r[4], 1, 1)
    \/ stateVersion < MaxRebuildCalls /\ Undo
    \/ stateVersion < MaxRebuildCalls /\ Redo

SpecRebuild == InitCrowd /\ [][NextRebuild]_vars

\* --------------------------------------------- changing the grid, SpecGrid
\* createCanvas(800, 600, 20), then addObject, moveObject, resizeObject and
\* undo between calls of setGridSnap and setGridSize; 1025 snaps to 1020 on
\* the grid of 20 and to 1050 on the grid of 50
MaxGridVersion == 3

GridSizes == {GridSize, 50}

GridPositions == {<<1025, 203>>, <<0, 0>>}

NextGrid ==
    \/ \E p \in GridPositions :
          /\ nextObjectId <= MaxId /\ stateVersion < MaxGridVersion
          /\ AddObject(p[1], p[2], 100, 100, 1, 1)
    \/ \E id \in CallIds, p \in GridPositions :
          stateVersion < MaxGridVersion /\ MoveObject(id, p[1], p[2])
    \/ \E id \in CallIds, p \in GridPositions :
          stateVersion < MaxGridVersion /\ ResizeObject(id, p[1], p[2], 130, 70)
    \/ stateVersion < MaxGridVersion /\ CanUndo /\ Undo
    \/ \E enabled \in BOOLEAN : SetGridSnap(enabled)
    \/ \E size \in GridSizes : SetGridSize(size)

SpecGrid == Init /\ [][NextGrid]_vars

\* ------------------------------- a batch with other calls between, SpecBatch
\* The caller of SpecBatch does not keep to section 5: moveObject, undo and
\* redo are called while a batchMove is being staged.
MaxBatchVersion == 4
BatchRoom == stateVersion < MaxBatchVersion
BetweenMoves == {<<40, 40>>}

NextBatch ==
    \/ nextObjectId <= MaxId /\ BatchRoom /\ AddObject(0, 0, 100, 100, 1, 1)
    \/ \E id \in CallIds, p \in BetweenMoves : BatchRoom /\ MoveObject(id, p[1], p[2])
    \/ BatchRoom /\ batchMoveCmd = <<>> /\ BeginBatchMove
    \/ \E id \in CallIds, p \in BatchMoveTo :
          Unstaged(batchMoveCmd, id) /\ AddToBatchMove(id, p[1], p[2])
    \/ BatchRoom /\ batchMoveCmd # <<>> /\ EndBatchMove
    \/ BatchRoom /\ Undo
    \/ BatchRoom /\ Redo

SpecBatch == Init /\ [][NextBatch]_vars

\* ------------------------------------------ objects of several layers, SpecSort
\* The facade leaves zIndex at 0. SpecSort works on the Viewport as its class
\* allows: objects whose zIndex was set are inserted into viewport.quadtree,
\* and updateVisibleObjects is called at any time.
MaxSortObjects == 4
SortLayers == {-1, 0, 1}

\* o = new CanvasObject(id, x, y, w, h); o.zIndex = z; quadtree.insert(o)
QtInsertLayer(x, y, w, h, z) ==
    LET id == nextObjectId
        heap == Append(obj, [CanvasObject(id, x, y, w, h) EXCEPT !.zIndex = z])
        r == QtInsert(quadtree, id, heap)
    IN /\ canvas /\ ~trap
       /\ obj' = heap
       /\ nextObjectId' = NextId(id)
       /\ quadtree' = r.node
       /\ trap' = r.trap
       /\ objects' = IF r.trap THEN objects ELSE MapSet(objects, id)
       /\ lastCall' = Call("insert", ~r.trap, id)
       /\ probe' = ProbeOther(probe)
       /\ UNCHANGED <<objectList, stateVersion, histVars, batchVars,
                      visibleObjects, grid, viewVars, store, worker, canvas>>

NextSort ==
    \/ \E r \in CullInside, z \in SortLayers :
         /\ nextObjectId <= MaxSortObjects
         /\ \A id \in Range(objects) : RectOf(id) # r
         /\ QtInsertLayer(r[1], r[2], r[3], r[4], z)
    \/ UpdateViewport

SpecSort == Init /\ [][NextSort]_vars

\* ----------------------------------- addItem, undo and redo alone, SpecStore
\* Items are added under ids the store does not hold (as uniqueId() gives
\* them), and undo and redo are called in any order.
MaxStoreCalls == 6

NextStore ==
    /\ probe < MaxStoreCalls
    /\ \/ \E id \in {"a", "b", "c"} :
            id \notin DOMAIN store.items /\ EditorAddItem(id, 0, 0, 100, 100)
       \/ EditorUndo
       \/ EditorRedo

SpecStore == InitEditor /\ [][NextStore]_vars

\* ----------------------------------------- load messages in any order, SpecWorker
\* The main thread posts up to MaxLoads load messages for two ids; fetches
\* resolve or reject at any time in between.
MaxLoads == 4

NextWorker ==
    \/ \E id \in WorkerIds : probe < MaxLoads /\ Load(id)
    \/ \E id \in WorkerIds : FetchResolves(id)
    \/ \E id \in WorkerIds : FetchRejects(id)
    \/ \E id \in WorkerIds : ColorDone(id)

SpecWorker == InitEditor /\ [][NextWorker]_vars

\* ------------------------------------------------------------ properties
BatchKinds == {"endBatchMove", "endBatchResize"}

\* C1: a recorded operation made with no batch in progress, followed by undo,
\* leaves the store with the ids, positions and sizes it had before the
\* operation.
UndoRoundTrip ==
    probe.stage = "undone" => Obs(obj, objects) = probe.before

\* C1 happens: an operation that changed the store has been undone
UndoRoundTripSeen ==
    /\ probe.stage = "undone"
    /\ probe.kind = "deleteObjects"
    /\ probe.before # probe.after
    /\ Obs(obj, objects) = probe.before

\* C2: operation, undo, redo leaves the store as it was right after the
\* operation, and that redo returns true.
RedoRoundTrip ==
    probe.stage = "redone" => lastCall.ok /\ Obs(obj, objects) = probe.after

\* C2 happens: a resize has been undone and redone
RedoRoundTripSeen ==
    /\ probe.stage = "redone"
    /\ probe.kind = "resizeObject"
    /\ probe.before # probe.after
    /\ lastCall = Call("redo", TRUE, 0)

RedoBranchCut ==
    /\ probe.stage \in {"op", "dirtyop"} =>
          ~CanRedo /\ Len(history) <= probe.steps0 + 1
    /\ probe.stage = "opRedo" => ~lastCall.ok /\ ~CanRedo

\* C4 happens: an operation was made while a redo branch existed (after a
\* successful undo), and redo was called next
RedoBranchCutSeen ==
    /\ probe.stage = "opRedo"
    /\ probe.len0 > probe.steps0
    /\ lastCall = Call("redo", FALSE, 0)

\* C5: after more than maxHistory recorded commands in a row, the first
\* maxHistory undo calls return true and the next one returns false.
HistoryCap ==
    probe.execRun > MaxHistory =>
        /\ probe.undoRun <= MaxHistory => probe.undoOk = probe.undoRun
        /\ probe.undoRun = MaxHistory + 1 => probe.undoOk = MaxHistory

\* C5 happens: maxHistory + 1 commands, then maxHistory + 1 undo calls
HistoryCapSeen ==
    /\ probe.execRun > MaxHistory
    /\ probe.undoRun = MaxHistory + 1
    /\ probe.undoOk = MaxHistory
    /\ lastCall = Call("undo", FALSE, 0)

\* C6 (as the specification words it): a query returns every inserted object
\* whose bounds meet the query rectangle.
QueryComplete ==
    (lastCall.op = "queryViewport" /\ ~trap) =>
        \A id \in Range(objects) :
            Intersects(QtRanges[lastCall.val], GetBounds(obj[id]))
                => id \in Range(visibleObjects)

\* C6: an object that straddles the quadrants of the divided root and was
\* inserted after the division is held in one child only
QueryOmitsSeen ==
    /\ lastCall.op = "queryViewport"
    /\ \E id \in Range(objects) :
          /\ Intersects(QtRanges[lastCall.val], GetBounds(obj[id]))
          /\ id \notin Range(visibleObjects)
          /\ Copies(quadtree, id) = 1
          /\ \A k \in 1..4 : Intersects(ChildBoundary(quadtree.boundary, k), GetBounds(obj[id]))

\* C7: no id occurs twice in the result of a query.
QueryDistinct ==
    lastCall.op = "queryViewport" =>
        \A i, j \in 1..Len(visibleObjects) :
            visibleObjects[i] = visibleObjects[j] => i = j

\* C7 happens: a query returned an object that several children hold
QueryDistinctSeen ==
    /\ lastCall.op = "queryViewport"
    /\ \E id \in Range(visibleObjects) : Copies(quadtree, id) > 1

\* C8 (as the specification words it): right after updateViewport every
\* visible id is the id of an existing object.
NoGhosts ==
    lastCall.op = "updateViewport" =>
        \A i \in 0..(GetVisibleCount - 1) : ObjectExists(GetVisibleObjectId(i))

\* C8: a deleted object is still in the tree and reported as visible
GhostSeen ==
    /\ lastCall.op = "updateViewport"
    /\ \E i \in 0..(GetVisibleCount - 1) :
          /\ ~ObjectExists(GetVisibleObjectId(i))
          /\ Copies(quadtree, GetVisibleObjectId(i)) > 0

\* C9: addObject returns ids in strictly increasing order, so none is
\* issued twice, and an object keeps the id it was created with.
IdsIncrease ==
    /\ \A i, j \in 1..Len(probe.issued) :
          i < j => probe.issued[i] < probe.issued[j]
    /\ \A i \in 1..Len(obj) : obj[i].id = i

\* C9 happens: an id is issued after the object of an earlier id is gone
\* (its add undone, or the canvas cleared)
IdsIncreaseSeen ==
    /\ lastCall = Call("addObject", TRUE, 2)
    /\ probe.issued = <<1, 2>>
    /\ ~ObjectExists(1)
    /\ Len(history) = 1

\* C10: after add, move and resize calls only, getObjectIdAtIndex over
\* 0 .. getObjectCount() - 1 gives existing ids in strictly increasing order.
EnumerationOrder ==
    \A i \in 0..(GetObjectCount - 1) :
        /\ ObjectExists(GetObjectIdAtIndex(i))
        /\ i > 0 => GetObjectIdAtIndex(i - 1) < GetObjectIdAtIndex(i)

\* C10 happens: two objects, the first one moved after the second was added
EnumerationOrderSeen ==
    /\ GetObjectCount = 2
    /\ lastCall.op = "moveObject"
    /\ obj[1].x # obj[2].x
    /\ GetObjectIdAtIndex(0) = 1 /\ GetObjectIdAtIndex(1) = 2

\* the calls that change the canvas when they succeed
Mutations ==
    {"addObject", "moveObject", "resizeObject", "deleteObject", "deleteObjects",
     "endBatchMove", "endBatchResize", "undo", "redo", "clearCanvas"}

\* C11: getStateVersion() never decreases, and it grows by exactly 1 with
\* each successful mutation: one addObject, moveObject, resizeObject,
\* deleteObject or deleteObjects, one non-empty endBatch (whatever the number
\* of its entries), one successful undo or redo, one clearCanvas.
VersionCounts ==
    [][/\ stateVersion' >= stateVersion
       /\ (lastCall'.op \in Mutations /\ lastCall'.ok)
             => stateVersion' = stateVersion + 1]_vars

\* C11 happens: a batch of two entries has ended as the third mutation
VersionCountsSeen ==
    /\ lastCall = Call("endBatchMove", TRUE, 0)
    /\ Len(history[currentIndex + 1].objectIds) = 2
    /\ stateVersion = 3

\* C12: two points of a session with the same getStateVersion() show the same
\* object store (ids, positions, sizes, asset ids, types) and the same ordered
\* id list; as the version never decreases, this is: a step that leaves the
\* version alone leaves the store and the list alone.
DirtySound ==
    [][stateVersion' = stateVersion
          => StoreView' = StoreView /\ objectList' = objectList]_vars

\* C12 happens: with two objects in the store a batch is staged, which has
\* not moved the version
DirtySoundSeen ==
    /\ lastCall = Call("addToBatchMove", TRUE, 0)
    /\ GetObjectCount = 2
    /\ stateVersion = 2

\* the store, the history, the quadtree and the version stay as they are
Untouched ==
    UNCHANGED <<obj, objects, objectList, nextObjectId, history, currentIndex,
                quadtree, stateVersion>>

\* the ids a caller may name: 0, the ids issued so far, and one beyond
AnyIds == 0..(MaxId + 1)

\* C13: moveObject, resizeObject and deleteObject with an id the store does
\* not hold leave the store, the history, the quadtree and the version
\* unchanged; for such an id the getters return 0 and objectExists false.
UnknownIdNoOp ==
    /\ [][\A id \in CallIds :
             ~ObjectExists(id) =>
                /\ (\E p \in Positions : MoveObject(id, p[1], p[2])) => Untouched
                /\ (\E d \in ResizeTo : ResizeObject(id, d[1], d[2], d[3], d[4]))
                      => Untouched
                /\ DeleteObject(id) => Untouched]_vars
    /\ [](\A id \in AnyIds :
             id \notin Range(objects) =>
                /\ ReadObject(id) = <<0, 0, 0, 0, 0, 0>>
                /\ ~ObjectExists(id))

\* C13 happens: deleteObject is called with an id that was issued, is no
\* longer in the store, and whose object is still held by the history
UnknownIdNoOpSeen ==
    /\ lastCall = Call("deleteObject", FALSE, 0)
    /\ GetObjectCount = 1
    /\ Len(obj) = 2
    /\ Len(history) > 0
    /\ stateVersion = MaxVersion - 1

\* C14: deleteObjects(ids) with a non-empty array of ids none of which is in
\* the store is a no-op: no history entry is added, canRedo() is as before,
\* stateVersion is unchanged.
DeleteUnknownNoOp ==
    [][\A ids \in IdArrays :
          ((\A i \in 1..Len(ids) : ~ObjectExists(ids[i])) /\ DeleteObjects(ids))
             => /\ history' = history
                /\ CanRedo' = CanRedo
                /\ stateVersion' = stateVersion]_vars

\* C14 fails: after add; undo, a deleteObjects of an id that was never issued
\* has replaced the redo branch by a command that deletes nothing
DeleteUnknownSeen ==
    /\ lastCall = Call("deleteObjects", TRUE, 0)
    /\ nextObjectId = 2
    /\ GetObjectCount = 0
    /\ Len(history) = 1 /\ currentIndex = 0
    /\ history[1] = BatchDeleteCommand(<<MaxId + 1>>, objects)
    /\ stateVersion = 3
    /\ ~CanRedo

\* what an endBatch without entries must leave alone
BatchDiscarded ==
    /\ history' = history
    /\ currentIndex' = currentIndex
    /\ CanRedo' = CanRedo
    /\ quadtree' = quadtree
    /\ stateVersion' = stateVersion

\* C15: endBatchMove() / endBatchResize() on a batch without entries (no
\* addToBatch call, or only addToBatch calls that named unknown ids) adds no
\* history entry, keeps the redo branch, leaves the quadtree and stateVersion
\* unchanged and clears the slot; an endBatch with the slot clear is a no-op.
EmptyBatchNoOp ==
    [][/\ \A id \in CallIds :
             ~ObjectExists(id) =>
                /\ (\E p \in BatchMoveTo : AddToBatchMove(id, p[1], p[2]))
                      => UNCHANGED batchMoveCmd
                /\ (\E d \in BatchResizeTo :
                       AddToBatchResize(id, d[1], d[2], d[3], d[4]))
                      => UNCHANGED batchResizeCmd
       /\ (batchMoveCmd # <<>> /\ IsEmpty(batchMoveCmd[1]) /\ EndBatchMove)
             => BatchDiscarded /\ batchMoveCmd' = <<>>
       /\ (batchResizeCmd # <<>> /\ IsEmpty(batchResizeCmd[1]) /\ EndBatchResize)
             => BatchDiscarded /\ batchResizeCmd' = <<>>
       /\ (batchMoveCmd = <<>> /\ EndBatchMove) => Untouched /\ UNCHANGED batchVars
       /\ (batchResizeCmd = <<>> /\ EndBatchResize)
             => Untouched /\ UNCHANGED batchVars]_vars

\* C15 happens: an endBatchResize has found nothing to commit while a redo
\* branch exists, and the slots are clear
EmptyBatchNoOpSeen ==
    /\ lastCall = Call("endBatchResize", FALSE, 0)
    /\ CanRedo
    /\ NoBatch
    /\ stateVersion = 2

\* C16: undo() with nothing to undo and redo() with nothing to redo return
\* false and leave the object store, the ordered id list, the history (cursor
\* and length), the quadtree and stateVersion unchanged.
ExhaustedNoOp ==
    [][/\ (~CanUndo /\ Undo) => (lastCall' = Call("undo", FALSE, 0) /\ Untouched)
       /\ (~CanRedo /\ Redo) => (lastCall' = Call("redo", FALSE, 0) /\ Untouched)]_vars

\* C16 happens: an undo has failed on a history whose only command is undone
\* already, and the store is empty as that undo left it
ExhaustedNoOpSeen ==
    /\ lastCall = Call("undo", FALSE, 0)
    /\ Len(history) = 1 /\ currentIndex = -1
    /\ GetObjectCount = 0 /\ Len(obj) = 1
    /\ stateVersion = 2

\* C18: undo() returns true exactly when canUndo() held right before the
\* call, redo() exactly when canRedo() held right before the call; an undo
\* that returns true moves the cursor down by one, such a redo up by one.
UndoRedoReturn ==
    [][/\ Undo => /\ lastCall'.ok = CanUndo
                  /\ lastCall'.ok => currentIndex' = currentIndex - 1
       /\ Redo => /\ lastCall'.ok = CanRedo
                  /\ lastCall'.ok => currentIndex' = currentIndex + 1]_vars

\* C18 happens: a redo has returned true and put the cursor on the last of
\* two commands
UndoRedoReturnSeen ==
    /\ lastCall = Call("redo", TRUE, 0)
    /\ Len(history) = 2 /\ currentIndex = 1
    /\ CanUndo /\ ~CanRedo

\* C19: for every value and every fixed grid size > 0 and snap flag,
\* snapValue(snapValue(v)) = snapValue(v) and snap(snap(x, y)) = snap(x, y);
\* with snapping disabled both return their arguments.
SnapIdempotent ==
    /\ lastCall.op \in {"snapValue", "snap"} =>
          /\ lastCall.val[3] = lastCall.val[2]
          /\ ~grid.snapEnabled => lastCall.val[2] = lastCall.val[1]

\* C19 fails: with the grid of 20, snapValue(150175952) is 150175968 and
\* snapValue(150175968) is 150175984
SnapDriftSeen ==
    /\ grid = [gridSize |-> FromInt(20), snapEnabled |-> TRUE]
    /\ lastCall = Call("snapValue", TRUE,
                       <<F32(9385997, 4), F32(9385998, 4), F32(9385999, 4)>>)

\* C20: every object in the store has width > 0 and height > 0, when every
\* addObject, resizeObject and addToBatchResize call is given a width > 0 and
\* a height > 0, for any grid size > 0, snapping enabled or disabled.
PositiveSizes ==
    \A id \in Range(objects) : GetObjectWidth(id) > 0 /\ GetObjectHeight(id) > 0

\* C20 fails: addObject(0, 0, 5, 8, 1, 1) on the grid of 20 has stored an
\* object of width 0 and height 0
ZeroSizeSeen ==
    /\ lastCall = Call("addObject", TRUE, 1)
    /\ grid = [gridSize |-> GridSize, snapEnabled |-> TRUE]
    /\ ObjectExists(1)
    /\ GetObjectWidth(1) = 0 /\ GetObjectHeight(1) = 0

\* the fields of the instance
Fields ==
    <<obj, objects, objectList, nextObjectId, stateVersion, history, currentIndex,
      batchMoveCmd, batchResizeCmd, quadtree, visibleObjects, grid, camera, canvasSize>>

\* C17: before the first createCanvas every call returns its sentinel
\* (addObject 0; undo, redo, canUndo, canRedo, objectExists false;
\* getObjectCount, updateViewport, getStateVersion 0) and every mutator leaves
\* the session uninitialized; a createCanvas then starts with an empty store,
\* an empty history, stateVersion 0 and 1 as the first id.
UninitializedSafe ==
    /\ [](~canvas =>
            /\ lastCall.op = "addObject" => ~lastCall.ok /\ lastCall.val = 0
            /\ lastCall.op \in {"undo", "redo"} => ~lastCall.ok
            /\ lastCall.op = "updateViewport" => lastCall.val = 0
            /\ ~CanvasCanUndo /\ ~CanvasCanRedo
            /\ \A id \in AnyIds : ~ObjectExists(id)
            /\ GetObjectCount = 0
            /\ GetStateVersion = 0)
    /\ [][(~canvas /\ lastCall'.op # "createCanvas")
             => ~canvas' /\ UNCHANGED Fields]_vars
    /\ [](lastCall.op = "createCanvas" =>
            /\ canvas
            /\ GetObjectCount = 0 /\ objectList = <<>>
            /\ history = <<>> /\ ~CanvasCanUndo /\ ~CanvasCanRedo
            /\ GetStateVersion = 0
            /\ nextObjectId = 1)
    /\ [][(lastCall.op = "createCanvas" /\ lastCall'.op = "addObject")
             => lastCall' = Call("addObject", TRUE, 1)]_vars

\* C17 happens: addObject has been called with no canvas and has returned 0
UninitializedSeen ==
    /\ ~canvas
    /\ lastCall = Call("addObject", FALSE, 0)
    /\ GetObjectCount = 0

\* the position of object 1 as the getters show it
At(x, y) == ObjectExists(1) /\ GetObjectX(1) = x /\ GetObjectY(1) = y

\* the state right after createCanvas; addObject(0, 0, 100, 100, 1, 1)
SceneAdded ==
    /\ stateVersion = 1
    /\ lastCall = Call("addObject", TRUE, 1)

\* the state right after the moveObject(1, 205, 203) that follows
SceneMoved ==
    /\ stateVersion = 2
    /\ lastCall = Call("moveObject", TRUE, 0)
    /\ Len(history) = 2 /\ currentIndex = 1
    /\ history[2] = MoveCommand(1, 0, 0, 200, 200)

\* C21: createCanvas(800, 600, 20); addObject(0, 0, 100, 100, 1, 1) returns 1;
\* moveObject(1, 205, 203) puts object 1 at (200, 200); undo() returns true
\* and puts it back at (0, 0); objectExists(1) holds after each step.
MoveScenario ==
    /\ [](stateVersion = 1 /\ lastCall.op = "addObject" => SceneAdded /\ At(0, 0))
    /\ [][(SceneAdded /\ MoveObject(1, 205, 203)) => (SceneMoved /\ At(200, 200))']_vars
    /\ [][(SceneMoved /\ Undo) => (lastCall = Call("undo", TRUE, 0) /\ At(0, 0))']_vars

\* C21 happens: the undo of the scenario has returned
MoveScenarioSeen ==
    /\ stateVersion = 3
    /\ lastCall = Call("undo", TRUE, 0)
    /\ Len(history) = 2 /\ currentIndex = 0
    /\ history[2] = MoveCommand(1, 0, 0, 200, 200)
    /\ At(0, 0)

\* the rectangle lies fully inside the range
FullyInside(o, range) ==
    /\ range.x <= o.x /\ o.x + o.width <= range.x + range.width
    /\ range.y <= o.y /\ o.y + o.height <= range.y + range.height

\* the rectangle and the range have no point in common
StrictlyOutside(o, range) ==
    \/ o.x + o.width < range.x \/ range.x + range.width < o.x
    \/ o.y + o.height < range.y \/ range.y + range.height < o.y

DefaultView == AABB(-400, -300, 800, 600)

InsideIds == {id \in Range(objects) : FullyInside(obj[id], DefaultView)}

OutsideIds == {id \in Range(objects) : StrictlyOutside(obj[id], DefaultView)}

ThreeInTwoOut ==
    /\ camera = [x |-> 0, y |-> 0, zoom |-> 1]
    /\ Len(objects) = 5 /\ Cardinality(InsideIds) = 3 /\ Cardinality(OutsideIds) = 2
    /\ lastCall.op = "updateViewport"

\* C22: on a fresh canvas with the default camera holding three objects fully
\* inside the viewport rectangle and two strictly outside it, updateViewport()
\* returns 3 and the visible ids are exactly the three inside ids
CullingScenario ==
    ThreeInTwoOut =>
        /\ lastCall = Call("updateViewport", TRUE, 3)
        /\ GetVisibleCount = 3
        /\ {GetVisibleObjectId(i) : i \in 0..2} = InsideIds

CullingScenarioSeen ==
    /\ ThreeInTwoOut /\ ~trap /\ quadtree.divided
    /\ Range(visibleObjects) = InsideIds

InRange(z) == ~IsNaN(z) /\ ~FLess(z, MinZoom) /\ ~FLess(MaxZoom, z)

\* the zoom after a call with delta, from the zoom before it: the f32 sum
\* when it lies in the range, else the nearer bound
Clamped(old, delta, new) ==
    LET sum == FAdd(old, delta)
    IN /\ InRange(new)
       /\ InRange(sum) => new = sum
       /\ ~IsNaN(sum) /\ FLess(sum, MinZoom) => new = MinZoom
       /\ ~IsNaN(sum) /\ FLess(MaxZoom, sum) => new = MaxZoom

\* C23: after any sequence of zoom calls 0.1 <= zoom <= 10.0, and a call
\* changes the zoom by delta when zoom + delta lies in that range and sets
\* it to the nearer bound otherwise
ZoomClamp ==
    [][lastCall'.op = "zoom" => Clamped(camera.zoom, lastCall'.val.delta, camera'.zoom)]_vars

\* zoom(0, 0, NaN) has been called: the zoom is NaN
ZoomNaNSeen == lastCall.op = "zoom" /\ IsNaN(lastCall.val.delta) /\ IsNaN(camera.zoom)

\* the same for the calls whose delta is a number, made while the zoom is one
ZoomClampNumbers ==
    [][lastCall'.op = "zoom" /\ ~IsNaN(lastCall'.val.delta) /\ ~IsNaN(camera.zoom)
         => Clamped(camera.zoom, lastCall'.val.delta, camera'.zoom)]_vars

\* the two f32 numbers differ by at most 2^-6
Near(a, b) ==
    LET d == FSub(a, b)
    IN ~IsNaN(d) /\ ~FLess(FNorm(1, -6), F32(Abs(d.m), d.e))

\* C24: the world point that screenToWorld(cx, cy, canvasWidth, canvasHeight)
\* gives is the same before and after zoomAt(cx, cy, delta), up to rounding
\* (stated for the deltas that are numbers)
ZoomAnchor ==
    (lastCall.op = "zoom" /\ ~IsNaN(lastCall.val.delta) /\ ~IsNaN(camera.zoom)) =>
        /\ Near(lastCall.val.before[1], lastCall.val.after[1])
        /\ Near(lastCall.val.before[2], lastCall.val.after[2])

\* zoom(400, 300, 1) on the new camera: the screen centre showed the world
\* point (0, 0) and shows (-400, -300) afterwards
ZoomAnchorLost ==
    /\ probe = 1 /\ camera = [x |-> FromInt(-400), y |-> FromInt(-300), zoom |-> FromInt(2)]
    /\ lastCall = Call("zoom", TRUE, [delta |-> FromInt(1), before |-> <<FZero, FZero>>,
                                      after |-> <<FromInt(-400), FromInt(-300)>>])

MultiOps == {"removeItems", "moveItems", "resizeItems"}

\* C25: each of Editor.removeItems, moveItems and resizeItems that changes at
\* least one item adds exactly one entry to the Store history, canUndo() is
\* true afterwards, and one undo() restores all affected items
SingleUndoEntry ==
    [][(lastCall'.op \in MultiOps /\ store'.items # store.items) =>
          /\ Len(store'.history) = store.historyIndex + 2
          /\ store'.historyIndex = store.historyIndex + 1
          /\ StoreCanUndo(store')
          /\ StoreUndo(store').items = store.items]_vars

\* new Editor(); addItem a at (0, 0); clearHistory(); moveItems([a], 50, 0):
\* the item is at (50, 0), the history is empty and canUndo() is false
EntryMissing ==
    /\ lastCall.op = "moveItems" /\ probe = 3
    /\ DOMAIN store.items = {"a"} /\ store.items["a"].x = 50
    /\ store.history = <<>> /\ ~StoreCanUndo(store) /\ store.batchDepth = 0

\* C26: in every reachable state the ordered id list holds exactly the ids of
\* the object store, each once: getObjectCount() is the length of the list and
\* getObjectIdAtIndex(i) is the non-zero id of an existing object for every
\* 0 <= i < getObjectCount()
ListConsistent ==
    (canvas /\ ~trap) =>
        /\ Range(objectList) = Range(objects)
        /\ Len(objectList) = Len(objects)
        /\ GetObjectCount = Len(objectList)
        /\ \A i \in 0..(GetObjectCount - 1) :
             GetObjectIdAtIndex(i) # 0 /\ ObjectExists(GetObjectIdAtIndex(i))

\* deleteObject(1) on two objects and its undo: the list was resynchronized
\* from the keys of the store, where the restored object comes last
ListResynced ==
    /\ lastCall = Call("undo", TRUE, 0) /\ ~trap
    /\ objects = <<2, 1>> /\ objectList = <<2, 1>>
    /\ GetObjectIdAtIndex(0) = 2 /\ GetObjectIdAtIndex(1) = 1

\* ids of the stored objects whose bounds intersect the root boundary
StoredInRoot ==
    {id \in Range(objects) : Intersects(GetBounds(obj[id]), quadtree.boundary)}

\* C27: immediately after every successful undo() or redo() the quadtree
\* holds exactly the objects of the store: every stored object whose bounds
\* intersect the root boundary is held in at least one node, and no node
\* holds an object that is absent from the store
RebuiltExact ==
    (lastCall.op \in {"undo", "redo"} /\ lastCall.ok /\ ~trap) => TreeIds(quadtree) = StoredInRoot

\* a successful redo whose rebuild subdivided the root over five objects
RebuiltDivided ==
    /\ lastCall = Call("redo", TRUE, 0) /\ ~trap
    /\ Len(objects) = 5 /\ quadtree.divided /\ TreeIds(quadtree) = Range(objects)

\* a successful undo that left a stored object outside the root boundary,
\* which no node holds
RebuiltOutside ==
    /\ lastCall = Call("undo", TRUE, 0) /\ ~trap
    /\ StoredInRoot # Range(objects) /\ TreeIds(quadtree) = StoredInRoot

\* C28: after Quadtree.remove(id) no queryViewport call returns the object
\* until it is inserted again; objects lists the ids inserted and not removed
RemoveComplete ==
    (lastCall.op = "queryViewport" /\ ~trap) =>
        \A id \in Range(visibleObjects) : MapHas(objects, id)

\* a query returned an object that was removed and not inserted again: the
\* remove took one of the copies that a subdivision had made and left the rest
RemovedStillFound ==
    /\ lastCall.op = "queryViewport" /\ ~trap
    /\ \E id \in Range(visibleObjects) :
          /\ ~MapHas(objects, id)
          /\ Copies(quadtree, id) > 0
          /\ Intersects(QtRanges[lastCall.val], GetBounds(obj[id]))

\* the object is stored in every leaf under the node whose boundary, and the
\* boundary of every node above it, intersects the object's bounds
RECURSIVE PlacedIn(_, _, _)
PlacedIn(node, id, heap) ==
    IF ~Intersects(node.boundary, GetBounds(heap[id])) THEN TRUE
    ELSE IF node.divided THEN \A k \in 1..4 : PlacedIn(node.children[k], id, heap)
    ELSE id \in Range(node.objects)

\* C29: an object that insert has placed into a subdivided node is stored
\* under every child whose boundary intersects the object's bounds
EveryChild ==
    (lastCall.op = "insert" /\ lastCall.ok /\ ~trap) => PlacedIn(quadtree, lastCall.val, obj)

\* an insert into the divided root of an object that meets all four children
\* has stored it in one child
PlacedOnce ==
    /\ lastCall.op = "insert" /\ lastCall.ok /\ ~trap /\ quadtree.divided
    /\ \A k \in 1..4 : Intersects(quadtree.children[k].boundary, GetBounds(obj[lastCall.val]))
    /\ Copies(quadtree, lastCall.val) = 1
    /\ lastCall.val \in Range(quadtree.children[1].objects)

\* C30: Quadtree.insert finishes after finitely many subdivisions for every
\* set of stored objects, more than four objects with the same bounds
\* included (trap tells that a call did not finish)
InsertTerminates == lastCall.op = "insert" => ~trap /\ lastCall.ok

\* the fifth insert of the same rectangle across the root centre has no end
InsertEndless ==
    /\ trap /\ lastCall = Call("insert", FALSE, 5)
    /\ objects = <<1, 2, 3, 4>>
    /\ \A id \in 1..5 : GetBounds(obj[id]) = AABB(-Lattice, -Lattice, 2 * Lattice, 2 * Lattice)

\* a step of one of the four staging calls, with the arguments of Spec
Staging ==
    \/ BeginBatchMove
    \/ BeginBatchResize
    \/ \E id \in CallIds, p \in BatchMoveTo : AddToBatchMove(id, p[1], p[2])
    \/ \E id \in CallIds, d \in BatchResizeTo : AddToBatchResize(id, d[1], d[2], d[3], d[4])

\* C31: beginBatchMove, addToBatchMove, beginBatchResize and addToBatchResize
\* leave every object's x, y, width, height, the history (length, cursor,
\* canUndo, canRedo), the quadtree and stateVersion unchanged
StagingSilent ==
    [][Staging =>
          /\ Untouched
          /\ StoreView' = StoreView
          /\ CanvasCanUndo' = CanvasCanUndo
          /\ CanvasCanRedo' = CanvasCanRedo
          /\ GetStateVersion' = GetStateVersion]_vars

\* a move and a resize are staged for object 1, which is still where it was
\* and as large as it was
StagedNotApplied ==
    /\ lastCall.op \in {"addToBatchMove", "addToBatchResize"} /\ lastCall.ok
    /\ \/ /\ batchMoveCmd # <<>> /\ batchMoveCmd[1].objectIds = <<1>>
          /\ batchMoveCmd[1].newPositions[1] # <<obj[1].x, obj[1].y>>
          /\ batchMoveCmd[1].oldPositions[1] = <<obj[1].x, obj[1].y>>
       \/ /\ batchResizeCmd # <<>> /\ batchResizeCmd[1].objectIds = <<1>>
          /\ batchResizeCmd[1].newData[1] # <<obj[1].x, obj[1].y, obj[1].width, obj[1].height>>

\* C32: setGridSize and setGridSnap change no stored object's x, y, width or
\* height, add no history entry and do not change stateVersion; a later
\* moveObject or resizeObject snaps with the settings in force when it is made
GridNotRetroactive ==
    [][/\ ((\E enabled \in BOOLEAN : SetGridSnap(enabled))
              \/ (\E size \in GridSizes : SetGridSize(size)))
          => Untouched /\ StoreView' = StoreView /\ UNCHANGED batchVars
       /\ \A id \in CallIds, p \in GridPositions :
             (ObjectExists(id) /\ MoveObject(id, p[1], p[2]))
                => <<GetObjectX(id), GetObjectY(id)>>' = Snap(grid, p[1], p[2])
       /\ \A id \in CallIds, p \in GridPositions :
             (ObjectExists(id) /\ ResizeObject(id, p[1], p[2], 130, 70))
                => ReadObject(id)' = <<Snap(grid, p[1], p[2])[1], Snap(grid, p[1], p[2])[2],
                                       SnapValue(grid, 130), SnapValue(grid, 70),
                                       GetObjectAssetId(id), GetObjectType(id)>>]_vars

\* the grid was set to 50 and object 1 is still at 1020, where the grid of
\* 20 had put it
GridChangedAfter ==
    /\ lastCall = Call("setGridSize", TRUE, 0) /\ grid.gridSize = 50 /\ grid.snapEnabled
    /\ ObjectExists(1) /\ GetObjectX(1) = 1020 /\ GetObjectY(1) = 200

\* a moveObject made after setGridSize(50) put object 1 at 1050
GridUsedLater ==
    /\ lastCall = Call("moveObject", TRUE, 0) /\ grid.gridSize = 50
    /\ ObjectExists(1) /\ GetObjectX(1) = 1050

\* ---------------------------------------------------------------- C33
\* what the getters return right after clearCanvas
ClearedState ==
    /\ GetObjectCount = 0
    /\ \A id \in 1..(MaxId + 1) : ~ObjectExists(id)
    /\ ~CanvasCanUndo /\ ~CanvasCanRedo
    /\ Len(UpdateVisibleObjects(quadtree, camera, canvasSize, obj)) = 0

JustCleared == lastCall = Call("clearCanvas", TRUE, 0)

\* C33: clearCanvas resets objects and history. Right after clearCanvas
\* getObjectCount is 0, objectExists is false for every id, canUndo and
\* canRedo are false and updateViewport would return 0; an undo or a redo
\* called then returns false and changes nothing; and no id issued before the
\* clearCanvas exists in any later state, whatever is called afterwards.
ClearResets ==
    /\ [][/\ ClearCanvas => ClearedState'
          /\ (JustCleared /\ Undo) => (lastCall' = Call("undo", FALSE, 0) /\ Untouched)
          /\ (JustCleared /\ Redo) => (lastCall' = Call("redo", FALSE, 0) /\ Untouched)]_vars
    /\ \A n \in 2..(MaxId + 1) :
          []((JustCleared /\ nextObjectId = n)
                => [](\A id \in 1..(n - 1) : ~ObjectExists(id)))

\* clearCanvas was called on a canvas that had issued two ids and whose
\* history held a command
ClearedAfterWork ==
    JustCleared /\ nextObjectId = 3 /\ ClearedState /\ stateVersion = 3

\* an undo was refused on the cleared canvas
UndoAfterClear ==
    lastCall = Call("undo", FALSE, 0) /\ nextObjectId = 3 /\ GetObjectCount = 0
       /\ stateVersion = 3

\* ---------------------------------------------------------------- C34
\* the cursor of CommandHistory lies within the history, which is bounded
CursorInRange ==
    /\ -1 <= currentIndex
    /\ currentIndex <= Len(history) - 1
    /\ Len(history) <= MaxHistory

\* the cursor is on the last entry, which is cmd
ExecutedLast(h, cur, cmd) == cur = Len(h) - 1 /\ h[Len(h)] = cmd

\* C34: in every reachable state of CommandHistory
\* -1 <= currentIndex <= history.length - 1 and history.length <= maxHistory;
\* immediately after execute(cmd), currentIndex = history.length - 1 and cmd
\* is the last entry of the history.
CursorTracksHistory ==
    /\ []CursorInRange
    /\ [][/\ \A p \in Positions, s \in AddSizes :
                AddObject(p[1], p[2], s[1], s[2], 1, 1)
                   => ExecutedLast(history', currentIndex', AddObjectCommand(nextObjectId))
          /\ \A id \in CallIds, p \in Positions :
                (ObjectExists(id) /\ MoveObject(id, p[1], p[2]))
                   => ExecutedLast(history', currentIndex',
                                   MoveCommand(id, GetObjectX(id), GetObjectY(id),
                                               Snap(grid, p[1], p[2])[1],
                                               Snap(grid, p[1], p[2])[2]))]_vars

\* execute was called on a full history: the oldest command was evicted and
\* the cursor stayed on the last entry
ExecutedOnFull ==
    /\ probe.execRun > MaxHistory
    /\ Len(history) = MaxHistory /\ currentIndex = MaxHistory - 1
    /\ lastCall = Call("moveObject", TRUE, 0)
    /\ history[MaxHistory].type = "Move"

\* ---------------------------------------------------------------- C35
\* getObjectX, getObjectY of an object
PositionOf(id) == <<GetObjectX(id), GetObjectY(id)>>

\* the command an undo called now would reverse
UnderCursor == history[currentIndex + 1]

BatchJustEnded ==
    /\ lastCall = Call("endBatchMove", TRUE, 0)
    /\ probe.kind = "endBatchMove"
    /\ probe.stage \in {"op", "dirtyop"}

DeleteUndone ==
    probe.stage = "undone" /\ probe.kind \in {"deleteObject", "deleteObjects"}

\* C36 (as the specification words it): after deleteObject(id) or
\* deleteObjects followed by undo(), getObjectIdAtIndex returns the same id at
\* every index as before the delete.
DeleteUndoKeepsOrder ==
    DeleteUndone =>
        /\ GetObjectCount = Len(probe.list0)
        /\ \A i \in 0..(Len(probe.list0) - 1) : GetObjectIdAtIndex(i) = probe.list0[i + 1]

\* the list was 1, 2; deleteObject(1) and undo left it 2, 1
ListOrderLost ==
    /\ DeleteUndone /\ probe.kind = "deleteObject" /\ ~trap
    /\ probe.list0 = <<1, 2>>
    /\ GetObjectIdAtIndex(0) = 2 /\ GetObjectIdAtIndex(1) = 1

\* ---------------------------------------------------------------- C37
\* how often id occurs in the list s
Occurrences(s, id) == Cardinality({i \in 1..Len(s) : s[i] = id})

\* what queryViewport returns for the viewport of the camera
QueryNow == QueryViewport(quadtree, GetViewportBounds(camera, canvasSize), obj)

\* C37: after updateVisibleObjects the visible list is a permutation of the
\* queryViewport result, ordered by zIndex ascending, and objects of equal
\* zIndex keep the order in which queryViewport returned them.
VisibleOrdered ==
    (lastCall.op = "updateViewport" /\ ~trap) =>
        /\ Len(visibleObjects) = Len(QueryNow)
        /\ lastCall.val = Len(QueryNow)
        /\ \A id \in 1..Len(obj) :
              Occurrences(visibleObjects, id) = Occurrences(QueryNow, id)
        /\ \A i, j \in 1..Len(visibleObjects) :
              i < j =>
                 /\ obj[visibleObjects[i]].zIndex <= obj[visibleObjects[j]].zIndex
                 /\ obj[visibleObjects[i]].zIndex = obj[visibleObjects[j]].zIndex
                       => IndexOf(QueryNow, visibleObjects[i])
                             < IndexOf(QueryNow, visibleObjects[j])

\* four objects were sorted: the order changed, and two of them share a layer
VisibleReordered ==
    /\ lastCall = Call("updateViewport", TRUE, 4)
    /\ visibleObjects # QueryNow
    /\ \E i, j \in 1..4 :
          i < j /\ obj[visibleObjects[i]].zIndex = obj[visibleObjects[j]].zIndex
    /\ \E i \in 1..3 : obj[visibleObjects[i]].zIndex < obj[visibleObjects[i + 1]].zIndex

\* ---------------------------------------------------------------- C38
\* the entry Store.undo would call, and the entry Store.redo would call
UndoEntry == store.history[store.historyIndex + 1]

RedoEntry == store.history[store.historyIndex + 2]

\* C38 (as the specification words it): every undo of an addItem entry leaves
\* the item absent and every redo of it leaves the item present, for any
\* number of alternating undo and redo calls.
AddUndoRedoCycle ==
    [][/\ (StoreCanUndo(store) /\ UndoEntry.type = "addItem" /\ EditorUndo)
             => UndoEntry.id \notin DOMAIN store'.items
       /\ (StoreCanRedo(store) /\ RedoEntry.type = "addItem" /\ EditorRedo)
             => RedoEntry.id \in DOMAIN store'.items]_vars

\* addItem(a); undo; redo; undo: the history is back at its start and the
\* item is still in the store
ItemSurvivesUndo ==
    /\ lastCall = Call("undo", TRUE, 0) /\ probe = 4
    /\ Len(store.history) = 1 /\ store.historyIndex = -1
    /\ store.history[1].type = "addItem" /\ store.history[1].id = "a"
    /\ "a" \in DOMAIN store.items

\* ---------------------------------------------------------------- C39
\* C39: for any interleaving of load messages, at most one fetch per id is in
\* flight at any time, and once the blob of an id is cached no further fetch
\* for that id is started: a load of a cached id is answered with 'cached' in
\* the same step, and the blob stays cached.
LoadDeduplicated ==
    /\ [](\A id \in WorkerIds : worker.fetching[id] <= 1)
    /\ [][\A id \in WorkerIds :
             id \in worker.blobCache =>
                /\ id \in worker'.blobCache
                /\ worker'.fetching[id] <= worker.fetching[id]
                /\ Load(id) => worker'.outbox = Append(worker.outbox, [type |-> "cached", id |-> id])]_vars

\* three loads of one id and nothing else: the second came while the fetch
\* was pending and was dropped, the third came after the blob was cached and
\* was answered with 'cached' before the first handler had posted its own
RepeatedLoads ==
    /\ probe = 3
    /\ lastCall = Call("load", TRUE, "a")
    /\ worker.blobCache = {"a"} /\ worker.loadingSet = {}
    /\ worker.fetching["a"] = 0 /\ worker.fetching["b"] = 0
    /\ worker.extracting["a"] = 1
    /\ worker.outbox = <<[type |-> "cached", id |-> "a"]>>

\* ---------------------------------------------------------------- C40
\* the four equal quadrants of the rectangle b
Quadrants(b) ==
    {AABB(b.x + i * (b.width \div 2), b.y + j * (b.height \div 2),
          b.width \div 2, b.height \div 2) : i, j \in {0, 1}}

\* the shape of a node and of every node below it
RECURSIVE WellShaped(_)
WellShaped(node) ==
    IF ~node.divided
    THEN Len(node.objects) <= Capacity /\ node.children = <<>>
    ELSE /\ Len(node.objects) = 0
         /\ DOMAIN node.children = 1..4
         /\ 2 * (node.boundary.width \div 2) = node.boundary.width
         /\ 2 * (node.boundary.height \div 2) = node.boundary.height
         /\ {node.children[k].boundary : k \in 1..4} = Quadrants(node.boundary)
         /\ \A k \in 1..4 : WellShaped(node.children[k])

\* some node of the tree is undivided and holds Capacity objects
RECURSIVE HasFullLeaf(_)
HasFullLeaf(node) ==
    IF node.divided THEN \E k \in 1..4 : HasFullLeaf(node.children[k])
    ELSE Len(node.objects) = Capacity

\* C40: in every reachable quadtree an undivided node holds at most capacity
\* (4) objects, and a subdivided node holds no objects of its own and has
\* exactly four children whose boundaries are the four equal quadrants of the
\* boundary of the node.
NodeShape == ~trap => WellShaped(quadtree)

\* a tree of depth two or more with a full undivided node, after a remove
ShapeSeen ==
    /\ ~trap /\ lastCall.op = "remove"
    /\ TreeDepth(quadtree) >= 2
    /\ HasFullLeaf(quadtree)

=============================================================================
